---- MODULE Spec2Model ----
(***************************************************************************)
(* Model of the OpenClaw budget manager plugin: the chain-budget ledger,   *)
(* the failure tracker, the provider chain, the budget gate, the model     *)
(* switcher and the two plugin entry points (legacy mode and chain mode).  *)
(*                                                                         *)
(* Money is counted in units of 0.00001 dollar, so that the per-1K-token   *)
(* rates of the cost table are whole numbers; time is a millisecond        *)
(* counter `now`, and the date string of todayString() is the day number   *)
(* now \div TicksPerDay.  A model id is the pair <<prefix, name>> of the   *)
(* text before its first "/" and the rest; the prefix is "" when the id    *)
(* carries no "/".                                                         *)
(***************************************************************************)
EXTENDS Integers, Sequences, FiniteSets, TLC

VARIABLES
    now,              \* the wall clock (new Date()), in ticks
    chainConfig,      \* provider-chain.json after applyEnvOverrides
    chainBudgetFile,  \* chain-budget.json: <<>> when missing, <<doc>> otherwise
    failureFile,      \* failure-tracker.json: <<>> when missing, <<doc>> otherwise
    lastOp,           \* the operation that ran last, with its arguments and result
    hostConfig,       \* openclaw.json: agents.defaults.model.primary and .models
    switcherState,    \* switcher-state.json: <<>> when missing, <<doc>> otherwise
    budgetFile,       \* budget.json (legacy mode): <<>> when missing, <<doc>> otherwise
    phase,            \* <<>>: no host process; <<m>>: the host runs on model m
    pending,          \* the switches of this process suspended at an await
    transcript,       \* the session: its messages, oldest first, and how many
                      \* of them an agent_end event has delivered
    txIds,            \* per ledger transaction, the messages it aggregated
    sessionFile,      \* the entries of the active session's log, oldest first
    sessionsIndex     \* sessions.json: <<>> when it or the session key is
                      \* missing, <<file>> when it names the session log

ledgerVars == <<chainConfig, chainBudgetFile, failureFile>>

hostVars == <<hostConfig, switcherState, budgetFile, phase, pending>>

usageVars == <<transcript, txIds, sessionFile, sessionsIndex>>

vars == <<now, lastOp, ledgerVars, hostVars, usageVars>>

----------------------------------------------------------------------------
(* Bounds *)

TicksPerDay == 3
MaxDay == 1
MaxCost == 200000
MaxTx == 2
MaxLedgerFailures == 1
MaxTurns == 3
MaxPending == 2
MaxMessages == 3
MaxEntries == 4
MaxKeepRecent == 2
MaxFailures == 3
MaxBatch == 2
MaxSwitches == 2

----------------------------------------------------------------------------
(* Time *)

todayString(t) == t \div TicksPerDay

Today == todayString(now)

----------------------------------------------------------------------------
(* Files *)

\* what a file holds when fs.writeFileSync has truncated it and the process
\* ended before the text was written out: text that JSON.parse rejects
Torn == [torn |-> TRUE]

----------------------------------------------------------------------------
(* provider-chain: the chain declaration *)

\* an absent optional model slot
NoModel == <<"", "">>

Provider(id, priority, maxDailyUsd, enabled, default) ==
    [id |-> id, priority |-> priority, maxDailyUsd |-> maxDailyUsd,
     enabled |-> enabled,
     models |-> [default |-> <<"", default>>, coding |-> NoModel, vision |-> NoModel]]

\* the chain of the test suites: A(3.00), B(2.00), C(1.00), Ollama(0)
TestChain ==
    << Provider("anthropic", 1, 300000, TRUE, "claude-sonnet-4"),
       Provider("moonshot", 2, 200000, TRUE, "kimi-k2.5"),
       Provider("deepseek", 3, 100000, TRUE, "deepseek-chat"),
       Provider("ollama", 99, 0, TRUE, "qwen3:8b") >>

\* a chain declared out of priority order, with a disabled provider and a tie
ShuffledChain ==
    << Provider("ollama", 99, 0, TRUE, "qwen3:8b"),
       Provider("anthropic", 1, 300000, FALSE, "claude-sonnet-4"),
       Provider("moonshot", 2, 100000, TRUE, "kimi-k2.5"),
       Provider("deepseek", 2, 100000, TRUE, "deepseek-chat") >>

ChainConfigs == {TestChain, ShuffledChain}

ProviderIds == {"anthropic", "moonshot", "deepseek", "ollama"}

ConfigIds(config) == {config[i].id : i \in 1..Len(config)}

RECURSIVE FilterEnabled(_)
FilterEnabled(seq) ==
    IF seq = <<>> THEN <<>>
    ELSE IF Head(seq).enabled THEN <<Head(seq)>> \o FilterEnabled(Tail(seq))
    ELSE FilterEnabled(Tail(seq))

\* insertion of p behind every element whose priority is not greater (stable)
RECURSIVE InsertByPriority(_, _)
InsertByPriority(p, sorted) ==
    IF sorted = <<>> THEN <<p>>
    ELSE IF Head(sorted).priority <= p.priority
         THEN <<Head(sorted)>> \o InsertByPriority(p, Tail(sorted))
         ELSE <<p>> \o sorted

RECURSIVE SortByPriority(_)
SortByPriority(seq) ==
    IF seq = <<>> THEN <<>>
    ELSE InsertByPriority(seq[Len(seq)], SortByPriority(SubSeq(seq, 1, Len(seq) - 1)))

getEnabledProviders(config) == SortByPriority(FilterEnabled(config))

\* getProviderById returns the provider or null; <<>> stands for null
getProviderById(config, providerId) ==
    LET idx == {i \in 1..Len(config) : config[i].id = providerId}
    IN  IF idx = {} THEN <<>>
        ELSE <<config[CHOOSE i \in idx : \A j \in idx : i <= j]>>

\* the loop of getNextProvider with >= for > in the comparison of priorities
RECURSIVE FirstMatching_atLeast(_, _, _)
FirstMatching_atLeast(seq, minPriority, exhaustedSet) ==
    IF seq = <<>> THEN <<>>
    ELSE IF Head(seq).priority >= minPriority /\ Head(seq).id \notin exhaustedSet
         THEN <<Head(seq)>>
         ELSE FirstMatching_atLeast(Tail(seq), minPriority, exhaustedSet)

RECURSIVE FirstMatching(_, _, _)
FirstMatching(seq, minPriority, exhaustedSet) ==
    IF seq = <<>> THEN <<>>
    ELSE IF Head(seq).priority > minPriority /\ Head(seq).id \notin exhaustedSet
         THEN <<Head(seq)>>
         ELSE FirstMatching(Tail(seq), minPriority, exhaustedSet)

getNextProvider(config, currentProviderId, exhaustedProviders) ==
    LET enabled == getEnabledProviders(config)
        cur == {i \in 1..Len(enabled) : enabled[i].id = currentProviderId}
        currentPriority ==
            IF cur = {} THEN 0
            ELSE enabled[CHOOSE i \in cur : \A j \in cur : i <= j].priority
    IN  FirstMatching(enabled, currentPriority, exhaustedProviders)

RECURSIVE FirstNotIn(_, _)
FirstNotIn(seq, exhaustedSet) ==
    IF seq = <<>> THEN <<>>
    ELSE IF Head(seq).id \notin exhaustedSet THEN <<Head(seq)>>
    ELSE FirstNotIn(Tail(seq), exhaustedSet)

getFirstAvailableProvider(config, exhaustedProviders) ==
    FirstNotIn(getEnabledProviders(config), exhaustedProviders)

getModelForTask(provider, taskType) ==
    IF taskType = "coding" /\ provider.models.coding # NoModel
        THEN provider.models.coding
    ELSE IF taskType = "vision" /\ provider.models.vision # NoModel
        THEN provider.models.vision
    ELSE provider.models.default

resolveFullModelId(providerId, modelId) ==
    IF modelId[1] # "" THEN modelId ELSE <<providerId, modelId[2]>>

----------------------------------------------------------------------------
(* chain-budget-store: the ledger *)

initializeProviderSpends(config) ==
    [id \in ConfigIds(config) |-> [spentUsd |-> 0, exhausted |-> FALSE]]

freshChainBudget_declared(config, today) ==
    LET enabledProviders == FilterEnabled(config)
        firstProvider ==
            IF enabledProviders = <<>> THEN "anthropic" ELSE enabledProviders[1].id
    IN  [date |-> today,
         providers |-> initializeProviderSpends(config),
         transactions |-> <<>>,
         activeProvider |-> firstProvider,
         switchHistory |-> <<>>]

freshChainBudget(config, today) ==
    LET enabledProviders == getEnabledProviders(config)
        firstProvider ==
            IF enabledProviders = <<>> THEN "anthropic" ELSE enabledProviders[1].id
    IN  [date |-> today,
         providers |-> initializeProviderSpends(config),
         transactions |-> <<>>,
         activeProvider |-> firstProvider,
         switchHistory |-> <<>>]

\* the providers of `raw` completed with a zero row for every configured id
EnsureProviders(raw, config) ==
    [raw EXCEPT !.providers =
        [id \in (DOMAIN raw.providers) \cup ConfigIds(config) |->
            IF id \in DOMAIN raw.providers THEN raw.providers[id]
            ELSE [spentUsd |-> 0, exhausted |-> FALSE]]]

loadChainBudget_reset(file, config, today) ==
    << <<freshChainBudget(config, today)>>, freshChainBudget(config, today) >>

\* whether loadChainBudget throws: JSON.parse of the file's text fails
loadChainBudgetThrows(file) == file # <<>> /\ file[1] = Torn

\* loadChainBudget: the pair <<file after the call, returned document>>
loadChainBudget(file, config, today) ==
    IF file = <<>> THEN
        << <<freshChainBudget(config, today)>>, freshChainBudget(config, today) >>
    ELSE IF file[1].date # today THEN
        << <<freshChainBudget(config, today)>>, freshChainBudget(config, today) >>
    ELSE << file, EnsureProviders(file[1], config) >>

SpendRow(data, providerId) ==
    IF providerId \in DOMAIN data.providers THEN data.providers[providerId]
    ELSE [spentUsd |-> 0, exhausted |-> FALSE]

WithRow(data, providerId, row) ==
    [data EXCEPT !.providers =
        [id \in (DOMAIN data.providers) \cup {providerId} |->
            IF id = providerId THEN row ELSE data.providers[id]]]

recordProviderTransaction_assign(data, providerId, model, costUsd, timestamp) ==
    LET pushed == [data EXCEPT !.transactions =
                      Append(@, [provider |-> providerId, model |-> model,
                                 cost_usd |-> costUsd, timestamp |-> timestamp])]
        row == SpendRow(pushed, providerId)
    IN  WithRow(pushed, providerId, [row EXCEPT !.spentUsd = costUsd])

\* recordProviderTransaction on the parsed document `data`
recordProviderTransaction(data, providerId, model, costUsd, timestamp) ==
    LET pushed == [data EXCEPT !.transactions =
                      Append(@, [provider |-> providerId, model |-> model,
                                 cost_usd |-> costUsd, timestamp |-> timestamp])]
        row == SpendRow(pushed, providerId)
    IN  WithRow(pushed, providerId, [row EXCEPT !.spentUsd = @ + costUsd])

getProviderSpend(data, providerId) == SpendRow(data, providerId).spentUsd

getProviderRemaining(data, providerId, maxUsd) ==
    IF maxUsd - getProviderSpend(data, providerId) > 0
    THEN maxUsd - getProviderSpend(data, providerId) ELSE 0

\* isProviderExhausted without the exemption of a zero budget
isProviderExhausted_noExemption(data, providerId, maxUsd) ==
    getProviderRemaining(data, providerId, maxUsd) <= 0

isProviderExhausted(data, providerId, maxUsd) ==
    IF maxUsd = 0 THEN FALSE
    ELSE getProviderRemaining(data, providerId, maxUsd) <= 0

setActiveProvider(data, providerId) == [data EXCEPT !.activeProvider = providerId]

getActiveProvider(data) == data.activeProvider

recordSwitch(data, from, to, reason, timestamp) ==
    [data EXCEPT !.switchHistory =
                    Append(@, [from |-> from, to |-> to, at |-> timestamp,
                               reason |-> reason]),
                 !.activeProvider = to]

getExhaustedProviders(data, config) ==
    {config[i].id : i \in
        {j \in 1..Len(config) :
            isProviderExhausted(data, config[j].id, config[j].maxDailyUsd)}}

RECURSIVE SumSpent(_, _)
SumSpent(providers, ids) ==
    IF ids = {} THEN 0
    ELSE LET id == CHOOSE x \in ids : TRUE
         IN  providers[id].spentUsd + SumSpent(providers, ids \ {id})

getTotalSpent(data) == SumSpent(data.providers, DOMAIN data.providers)

\* null is <<>>, a timestamp t is <<t>>
getLastTransactionTimestamp(data) ==
    IF Len(data.transactions) = 0 THEN <<>>
    ELSE <<data.transactions[Len(data.transactions)].timestamp>>

----------------------------------------------------------------------------
(* failure-tracker *)

EmptyMap == [id \in {} |-> 0]

FAILURE_THRESHOLD == 3

loadFailureData(file, today) ==
    IF file # <<>> /\ file[1] # Torn /\ file[1].date = today THEN file[1]
    ELSE [date |-> today, providers |-> EmptyMap]

\* ensureProvider: the document with a zero record for providerId when absent
ensureProvider(data, providerId) ==
    IF providerId \in DOMAIN data.providers THEN data
    ELSE [data EXCEPT !.providers =
            [id \in (DOMAIN data.providers) \cup {providerId} |->
                IF id = providerId
                THEN [consecutiveFailures |-> 0, lastFailureAt |-> <<>>]
                ELSE data.providers[id]]]

\* a recordSuccess that saves a document with the one record only
recordSuccess_clears(file, providerId, today) ==
    ensureProvider([date |-> today, providers |-> EmptyMap], providerId)

\* recordSuccess: the document that is saved
recordSuccess(file, providerId, today) ==
    LET data == ensureProvider(loadFailureData(file, today), providerId)
    IN  [data EXCEPT !.providers[providerId].consecutiveFailures = 0]

\* recordFailure: the document that is saved; its counter is the return value
recordFailure(file, providerId, today, timestamp) ==
    LET data == ensureProvider(loadFailureData(file, today), providerId)
    IN  [data EXCEPT !.providers[providerId].consecutiveFailures = @ + 1,
                     !.providers[providerId].lastFailureAt = <<timestamp>>]

shouldSwitchProvider(file, providerId, today, threshold) ==
    LET data == loadFailureData(file, today)
    IN  IF providerId \notin DOMAIN data.providers THEN FALSE
        ELSE data.providers[providerId].consecutiveFailures >= threshold

----------------------------------------------------------------------------
(* usage-tracker *)

\* the substrings, among those the code looks for, that a piece of text has
KeywordsOf(text) ==
    CASE text = "claude-sonnet-4" -> {"claude", "sonnet"}
      [] text = "claude-sonnet-4-20250514" -> {"claude", "sonnet"}
      [] text = "claude-3-5-haiku-20241022" -> {"claude", "haiku"}
      [] text = "kimi-k2.5" -> {"kimi"}
      [] text = "deepseek-chat" -> {"deepseek"}
      [] text = "qwen3:8b" -> {"qwen"}
      [] text = "qwen/qwen3.5-plus" -> {"qwen"}
      [] text = "anthropic" -> {"anthropic"}
      [] text = "moonshot" -> {"moonshot"}
      [] text = "deepseek" -> {"deepseek"}
      [] text = "ollama" -> {"ollama"}
      [] OTHER -> {}

Includes(modelId, keyword) ==
    keyword \in KeywordsOf(modelId[1]) \cup KeywordsOf(modelId[2])

localPatterns ==
    {"qwen", "llama", "mistral", "codellama", "deepseek-coder", "phi", "gemma",
     "vicuna", "orca", "neural-chat", "starling", "openchat", "zephyr",
     "dolphin", "nous-hermes", "yi:"}

isLocalModel(modelId) ==
    \/ modelId[1] = "ollama"
    \/ \E pattern \in localPatterns : Includes(modelId, pattern)

\* a message is [role, usage, provider, model, timestamp]; provider and
\* model are "" when absent, usage and timestamp are <<>> when absent
isFreeMessage(msg) ==
    \/ msg.provider = "ollama"
    \/ msg.model # "" /\ isLocalModel(<<"", msg.model>>)

calculateCost(tokensIn, tokensOut, cost) ==
    (tokensIn * cost.input) \div 1000 + (tokensOut * cost.output) \div 1000

\* a usage object is [input, output, cost]: the token counts, <<>> when no
\* field pair yields numbers, and cost.total, <<>> when absent
extractTokens(usage) ==
    IF usage.input # <<>> /\ usage.output # <<>>
    THEN <<[input_tokens |-> usage.input[1], output_tokens |-> usage.output[1]]>>
    ELSE <<>>

extractPreCalculatedCost(usage) == usage.cost

\* the skip with < for <= in the comparison with the cutoff
Skipped_strict(msg, since) ==
    \/ msg.role # "assistant"
    \/ msg.usage = <<>>
    \/ since # <<>> /\ (msg.timestamp = <<>> \/ msg.timestamp[1] < since[1])
    \/ extractTokens(msg.usage[1]) = <<>>

\* whether the loop body skips the message
Skipped(msg, since) ==
    \/ msg.role # "assistant"
    \/ msg.usage = <<>>
    \/ since # <<>> /\ (msg.timestamp = <<>> \/ msg.timestamp[1] <= since[1])
    \/ extractTokens(msg.usage[1]) = <<>>

MessageCost(msg, fallbackIsFree, fallbackCost) ==
    LET usage == msg.usage[1]
        tokens == extractTokens(usage)[1]
        preCost == extractPreCalculatedCost(usage)
    IN  IF isFreeMessage(msg) \/ fallbackIsFree THEN 0
        ELSE IF preCost # <<>> /\ preCost[1] > 0 THEN preCost[1]
        ELSE calculateCost(tokens.input_tokens, tokens.output_tokens, fallbackCost)

\* the loop of aggregateUsageFromMessages over the messages from index i on
RECURSIVE AggregateFrom(_, _, _, _, _, _)
AggregateFrom(messages, i, fallbackModelId, fallbackCost, since, acc) ==
    IF i > Len(messages) THEN acc
    ELSE LET msg == messages[i]
         IN  IF Skipped(msg, since)
             THEN AggregateFrom(messages, i + 1, fallbackModelId, fallbackCost, since, acc)
             ELSE AggregateFrom(messages, i + 1, fallbackModelId, fallbackCost, since,
                    [found |-> TRUE,
                     input_tokens |-> acc.input_tokens
                                      + extractTokens(msg.usage[1])[1].input_tokens,
                     output_tokens |-> acc.output_tokens
                                       + extractTokens(msg.usage[1])[1].output_tokens,
                     cost |-> acc.cost
                              + MessageCost(msg, isLocalModel(fallbackModelId), fallbackCost),
                     model |-> IF acc.model = fallbackModelId /\ msg.model # ""
                               THEN <<msg.provider, msg.model>>
                               ELSE acc.model,
                     ids |-> acc.ids \cup {msg.id}])

\* null is <<>>; `ids` names the messages that were counted
aggregateUsageFromMessages(messages, fallbackModelId, fallbackCost, since) ==
    LET acc == AggregateFrom(messages, 1, fallbackModelId, fallbackCost, since,
                   [found |-> FALSE, input_tokens |-> 0, output_tokens |-> 0,
                    cost |-> 0, model |-> fallbackModelId, ids |-> {}])
    IN  IF acc.found THEN <<acc>> ELSE <<>>

PROVIDER_PREFIXES ==
    {"anthropic", "moonshot", "deepseek", "google", "openai", "ollama"}

detectProviderFromModel(modelId) ==
    IF modelId[1] # "" /\ modelId[1] \in PROVIDER_PREFIXES THEN modelId[1]
    ELSE IF Includes(modelId, "claude") \/ Includes(modelId, "anthropic") THEN "anthropic"
    ELSE IF Includes(modelId, "kimi") \/ Includes(modelId, "moonshot") THEN "moonshot"
    ELSE IF Includes(modelId, "deepseek") THEN "deepseek"
    ELSE IF Includes(modelId, "gemini") \/ Includes(modelId, "google") THEN "google"
    ELSE IF Includes(modelId, "gpt") \/ Includes(modelId, "openai") THEN "openai"
    ELSE IF Includes(modelId, "qwen") \/ Includes(modelId, "llama")
            \/ Includes(modelId, "ollama") THEN "ollama"
    ELSE "anthropic"

\* trackChainUsage that reports the usage without recording it
trackChainUsage_unrecorded(file, config, modelId, messages, cost, today, timestamp) ==
    LET loaded == loadChainBudget(file, config, today)
        since == getLastTransactionTimestamp(loaded[2])
        aggregated == aggregateUsageFromMessages(messages, modelId, cost, since)
    IN  IF aggregated = <<>> THEN <<loaded[1], <<>>>>
        ELSE << loaded[1],
                <<[providerId |-> detectProviderFromModel(aggregated[1].model),
                   aggregated |-> aggregated[1]]>> >>

\* trackChainUsage: <<file after the call, result>>; the result is <<>> for
\* null and <<[providerId, aggregated]>> otherwise
trackChainUsage(file, config, modelId, messages, cost, today, timestamp) ==
    LET loaded == loadChainBudget(file, config, today)
        since == getLastTransactionTimestamp(loaded[2])
        aggregated == aggregateUsageFromMessages(messages, modelId, cost, since)
    IN  IF aggregated = <<>> THEN <<loaded[1], <<>>>>
        ELSE LET providerId == detectProviderFromModel(aggregated[1].model)
             IN  << <<recordProviderTransaction(loaded[1][1], providerId,
                                                aggregated[1].model, aggregated[1].cost,
                                                timestamp)>>,
                    <<[providerId |-> providerId, aggregated |-> aggregated[1]]>> >>

----------------------------------------------------------------------------
(* budget-gate: the chain decision *)

\* Math.round(100 * n / d) for n >= 0 and d > 0
RoundPercent(n, d) == (200 * n + d) \div (2 * d)

getProviderStats(data, provider) ==
    [spent |-> getProviderSpend(data, provider.id),
     remaining |-> getProviderRemaining(data, provider.id, provider.maxDailyUsd),
     percent |-> IF provider.maxDailyUsd > 0
                 THEN RoundPercent(getProviderRemaining(data, provider.id,
                                                        provider.maxDailyUsd),
                                   provider.maxDailyUsd)
                 ELSE 100,
     exhausted |-> isProviderExhausted(data, provider.id, provider.maxDailyUsd)]

\* the words of CODING_KEYWORDS and CODE_FILE_EXTENSIONS that a prompt has
CodingWordsOf(prompt) ==
    CASE prompt = "fix the bug in main.ts" -> {"bug", ".ts"}
      [] OTHER -> {}

\* a message's content is not modelled, so no message carries an image block
detectTaskType(prompt, messages) ==
    IF CodingWordsOf(prompt) # {} THEN "coding" ELSE "general"

UnknownModel == <<"", "unknown">>

Decision(action, currentProvider, currentModel, next, remaining, percent, taskType) ==
    [action |-> action, currentProvider |-> currentProvider,
     currentModel |-> currentModel,
     nextProvider |-> IF next = <<>> THEN <<>> ELSE <<next[1].id>>,
     nextModel |-> IF next = <<>> THEN <<>>
                   ELSE <<resolveFullModelId(next[1].id,
                                             getModelForTask(next[1], taskType))>>,
     providerRemaining |-> remaining, providerPercent |-> percent,
     taskType |-> taskType]

\* the decision of checkChainBudget on the loaded document
DecideChain(budgetData, config, taskType) ==
    LET activeProviderId == getActiveProvider(budgetData)
        activeProvider == getProviderById(config, activeProviderId)
        exhausted == getExhaustedProviders(budgetData, config)
    IN  IF activeProvider = <<>> \/ ~activeProvider[1].enabled THEN
            LET firstAvailable == getFirstAvailableProvider(config, exhausted)
            IN  IF firstAvailable = <<>>
                THEN Decision("all_exhausted", activeProviderId, UnknownModel, <<>>,
                              0, 0, taskType)
                ELSE Decision("switch_provider", activeProviderId, UnknownModel,
                              firstAvailable, firstAvailable[1].maxDailyUsd, 100,
                              taskType)
        ELSE
            LET stats == getProviderStats(budgetData, activeProvider[1])
                currentModel ==
                    resolveFullModelId(activeProviderId,
                                       getModelForTask(activeProvider[1], taskType))
                nextProvider == getNextProvider(config, activeProviderId, exhausted)
            IN  IF stats.exhausted THEN
                    IF nextProvider = <<>>
                    THEN Decision("all_exhausted", activeProviderId, currentModel,
                                  <<>>, 0, 0, taskType)
                    ELSE Decision("switch_provider", activeProviderId, currentModel,
                                  nextProvider, stats.remaining, stats.percent,
                                  taskType)
                ELSE Decision("allow", activeProviderId, currentModel, <<>>,
                              stats.remaining, stats.percent, taskType)

\* checkChainBudget: <<file after the call, decision>>
checkChainBudget(file, config, today, prompt, messages) ==
    LET loaded == loadChainBudget(file, config, today)
    IN  <<loaded[1], DecideChain(loaded[2], config, detectTaskType(prompt, messages))>>

----------------------------------------------------------------------------
(* model-switcher *)

\* loadSwitcherState: null (<<>>) when the file is missing or does not parse
loadSwitcherState(file) == IF file = <<>> \/ file[1] = Torn THEN <<>> ELSE file

resolveCurrentModel(config) == config.primary

\* agents.defaults.models is kept as the set of its keys; `aliased` tells
\* whether the sonnet and haiku entries carry an alias; `rest` is what the
\* file holds besides agents.defaults.model.primary and agents.defaults.models
OtherKeys == {"gateway", "channels", "agents.defaults.workspace"}

\* a config built anew around the model, without what the file held
setActiveModel_fresh(config, modelId) ==
    [primary |-> modelId, models |-> {modelId}, aliased |-> FALSE, rest |-> {}]

setActiveModel(config, modelId) ==
    [config EXCEPT !.primary = modelId, !.models = @ \cup {modelId}]

DefaultOptimizationModel == <<"anthropic", "claude-sonnet-4-20250514">>

AliasedModels ==
    {<<"anthropic", "claude-sonnet-4-20250514">>,
     <<"anthropic", "claude-3-5-haiku-20241022">>,
     <<"anthropic", "claude-opus-4-20250514">>,
     <<"anthropic", "claude-opus-4-5-20251101">>,
     <<"deepseek", "deepseek-chat">>, <<"moonshot", "kimi-k2.5">>,
     <<"google", "gemini-2.5-flash">>, <<"google", "gemini-2.5-pro">>,
     <<"openai", "gpt-4o">>, <<"openai", "gpt-4o-mini">>,
     <<"ollama", "qwen3:8b">>, <<"ollama", "qwen3-coder:30b">>,
     <<"ollama", "qwen3-vl:8b">>}

applyOptimizedConfig(config) ==
    [primary |-> DefaultOptimizationModel,
     models |-> config.models \cup AliasedModels,
     aliased |-> TRUE,
     rest |-> config.rest]

isOptimizationApplied(config) == config.aliased

\* the outcomes of `openclaw gateway restart` run from inside the host: "ok",
\* the host process is replaced and nothing after the call runs; "fail", the
\* command fails or times out and execSync throws
RestartOutcomes == {"ok", "fail"}

\* a probe is the answers of the Ollama server to isOllamaRunning, to
\* hasModel(task model) and to hasModel(general or default model)
Probes ==
    {[ollamaUp |-> TRUE, targetAvailable |-> TRUE, generalAvailable |-> TRUE],
     [ollamaUp |-> TRUE, targetAvailable |-> FALSE, generalAvailable |-> TRUE],
     [ollamaUp |-> TRUE, targetAvailable |-> FALSE, generalAvailable |-> FALSE],
     [ollamaUp |-> FALSE, targetAvailable |-> FALSE, generalAvailable |-> FALSE]}

\* the answers on which a switch to the local provider cannot go on: the
\* server does not answer in time, or has neither of the two models
ProbeFails(probe) ==
    ~probe.ollamaUp \/ (~probe.targetAvailable /\ ~probe.generalAvailable)

\* switchToProvider up to its first await: "not_found", "disabled", "await"
\* (the Ollama probes) or "go"
switchToProvider_begin(config, providerId) ==
    LET provider == getProviderById(config, providerId)
    IN  IF provider = <<>> THEN "not_found"
        ELSE IF ~provider[1].enabled THEN "disabled"
        ELSE IF providerId = "ollama" THEN "await"
        ELSE "go"

\* switchToProvider that goes on whatever the Ollama server answers
switchToProvider_unprobed(host, file, config, providerId, taskType, probe, today, timestamp) ==
    LET provider == getProviderById(config, providerId)[1]
        fullModelId == resolveFullModelId(providerId, getModelForTask(provider, taskType))
        loaded == loadChainBudget(file, config, today)
        currentProviderId == loaded[2].activeProvider
    IN  [ret |-> TRUE,
         host |-> setActiveModel(host, fullModelId),
         file |-> IF currentProviderId # providerId
                  THEN <<recordSwitch(loaded[1][1], currentProviderId, providerId,
                                      "Budget exhausted", timestamp)>>
                  ELSE <<setActiveProvider(loaded[1][1], providerId)>>,
         restart |-> TRUE]

\* switchToProvider from the probes' answers on: [ret, host, file, restart],
\* where restart tells whether restartGateway is called last
switchToProvider(host, file, config, providerId, taskType, probe, today, timestamp) ==
    LET provider == getProviderById(config, providerId)[1]
        fullModelId == resolveFullModelId(providerId, getModelForTask(provider, taskType))
        loaded == loadChainBudget(file, config, today)
        currentProviderId == loaded[2].activeProvider
    IN  IF providerId = "ollama"
           /\ (~probe.ollamaUp \/ (~probe.targetAvailable /\ ~probe.generalAvailable))
        THEN [ret |-> FALSE, host |-> host, file |-> file, restart |-> FALSE]
        ELSE [ret |-> TRUE,
              host |-> setActiveModel(host, fullModelId),
              file |-> IF currentProviderId # providerId
                       THEN <<recordSwitch(loaded[1][1], currentProviderId, providerId,
                                           "Budget exhausted", timestamp)>>
                       ELSE <<setActiveProvider(loaded[1][1], providerId)>>,
              restart |-> TRUE]

\* restoreFirstProvider: [ret, host, file, restart]
restoreFirstProvider(host, file, config, today) ==
    LET enabled == getEnabledProviders(config)
        loaded == loadChainBudget(file, config, today)
    IN  IF Len(enabled) = 0
        THEN [ret |-> FALSE, host |-> host, file |-> file, restart |-> FALSE]
        ELSE IF loaded[2].activeProvider = enabled[1].id
        THEN [ret |-> FALSE, host |-> host, file |-> loaded[1], restart |-> FALSE]
        ELSE [ret |-> TRUE,
              host |-> setActiveModel(host,
                          resolveFullModelId(enabled[1].id,
                                             getModelForTask(enabled[1], "general"))),
              file |-> <<setActiveProvider(loaded[1][1], enabled[1].id)>>,
              restart |-> TRUE]

\* switchToLocalModel without its check of the switcher state
switchToLocalModel_never(existing) == FALSE

\* switchToLocalModel up to its first await: whether it returns false at once
switchToLocalModel_skips(existing) ==
    existing # <<>> /\ existing[1].mode = "local"

\* switchToLocalModel that reads the original model after it wrote the config
switchToLocalModel_recordsAfter(host, state, taskType, localModels, probe, timestamp) ==
    LET target == IF probe.targetAvailable THEN localModels[taskType]
                  ELSE localModels.general
        ollamaModelId == <<"ollama", target>>
    IN  IF ~probe.ollamaUp \/ (~probe.targetAvailable /\ ~probe.generalAvailable)
        THEN [ret |-> FALSE, host |-> host, state |-> state, restart |-> FALSE]
        ELSE [ret |-> TRUE,
              host |-> setActiveModel(host, ollamaModelId),
              state |-> <<[mode |-> "local",
                           originalModel |->
                               resolveCurrentModel(setActiveModel(host, ollamaModelId)),
                           switchedAt |-> timestamp,
                           switchedModelId |-> ollamaModelId]>>,
              restart |-> TRUE]

\* switchToLocalModel from the probes' answers on: [ret, host, state, restart]
switchToLocalModel(host, state, taskType, localModels, probe, timestamp) ==
    LET target == IF probe.targetAvailable THEN localModels[taskType]
                  ELSE localModels.general
        ollamaModelId == <<"ollama", target>>
    IN  IF ~probe.ollamaUp \/ (~probe.targetAvailable /\ ~probe.generalAvailable)
        THEN [ret |-> FALSE, host |-> host, state |-> state, restart |-> FALSE]
        ELSE [ret |-> TRUE,
              host |-> setActiveModel(host, ollamaModelId),
              state |-> <<[mode |-> "local",
                           originalModel |-> resolveCurrentModel(host),
                           switchedAt |-> timestamp,
                           switchedModelId |-> ollamaModelId]>>,
              restart |-> TRUE]

\* restoreCloudModel that leaves the switcher state in place
restoreCloudModel_keepsState(host, state) ==
    IF state = <<>> \/ state[1].mode # "local"
    THEN [ret |-> FALSE, host |-> host, state |-> state, restart |-> FALSE]
    ELSE [ret |-> TRUE, host |-> setActiveModel(host, state[1].originalModel),
          state |-> state, restart |-> TRUE]

\* restoreCloudModel: [ret, host, state, restart]
restoreCloudModel(host, state) ==
    IF state = <<>> \/ state[1].mode # "local"
    THEN [ret |-> FALSE, host |-> host, state |-> state, restart |-> FALSE]
    ELSE [ret |-> TRUE, host |-> setActiveModel(host, state[1].originalModel),
          state |-> <<>>, restart |-> TRUE]

----------------------------------------------------------------------------
(* budget-store and budget-gate: the single daily budget of legacy mode *)

DAILY_BUDGET_USD == 500000

freshBudget(dailyBudgetUsd, today) ==
    [date |-> today, daily_budget_usd |-> dailyBudgetUsd, spent_today_usd |-> 0,
     transactions |-> <<>>]

\* whether loadBudget throws: JSON.parse of the file's text fails
loadBudgetThrows(file) == file # <<>> /\ file[1] = Torn

\* loadBudget: the pair <<file after the call, returned document>>
loadBudget(file, dailyBudgetUsd, today) ==
    IF file = <<>> \/ file[1].date # today
    THEN << <<freshBudget(dailyBudgetUsd, today)>>, freshBudget(dailyBudgetUsd, today) >>
    ELSE << file, file[1] >>

RECURSIVE SumCosts(_)
SumCosts(txs) == IF txs = <<>> THEN 0 ELSE Head(txs).cost_usd + SumCosts(Tail(txs))

\* recordTransaction on the parsed document `data`
recordTransaction(data, model, costUsd, timestamp) ==
    LET pushed == Append(data.transactions,
                         [model |-> model, cost_usd |-> costUsd, timestamp |-> timestamp])
    IN  [data EXCEPT !.transactions = pushed, !.spent_today_usd = SumCosts(pushed)]

getRemainingBudget(data) == data.daily_budget_usd - data.spent_today_usd

\* budget-store's getLastTransactionTimestamp; <<>> also when the file is missing
getLastBudgetTimestamp(file) ==
    IF file = <<>> \/ Len(file[1].transactions) = 0 THEN <<>>
    ELSE <<file[1].transactions[Len(file[1].transactions)].timestamp>>

\* trackUsage: the file after the call
trackUsage(file, modelId, messages, cost, dailyBudgetUsd, today, timestamp) ==
    LET loaded == loadBudget(file, dailyBudgetUsd, today)
        aggregated == aggregateUsageFromMessages(messages, modelId, cost,
                                                 getLastBudgetTimestamp(loaded[1]))
    IN  IF aggregated = <<>> THEN loaded[1]
        ELSE <<recordTransaction(loaded[1][1], aggregated[1].model, aggregated[1].cost,
                                 timestamp)>>

DEFAULT_LOCAL_MODELS ==
    [coding |-> "qwen3-coder:30b", vision |-> "qwen3-vl:8b", general |-> "qwen3:8b"]

\* no LOCAL_MODEL variable is set in the environment
getLocalModels == DEFAULT_LOCAL_MODELS

\* checkBudget: <<file after the call, decision>>
checkBudget(file, dailyBudgetUsd, today, prompt, messages) ==
    LET loaded == loadBudget(file, dailyBudgetUsd, today)
        remaining == getRemainingBudget(loaded[1][1])
        percent == RoundPercent(remaining, dailyBudgetUsd)
        taskType == detectTaskType(prompt, messages)
    IN  << loaded[1],
           IF remaining <= 0
           THEN [action |-> "force_local", remaining_usd |-> remaining,
                 percent_remaining |-> percent,
                 forced_model |-> <<getLocalModels[taskType]>>,
                 task_type |-> <<taskType>>]
           ELSE IF percent < 20
           THEN [action |-> "prefer_cheaper", remaining_usd |-> remaining,
                 percent_remaining |-> percent, forced_model |-> <<>>,
                 task_type |-> <<>>]
           ELSE [action |-> "allow", remaining_usd |-> remaining,
                 percent_remaining |-> percent, forced_model |-> <<>>,
                 task_type |-> <<>>] >>

----------------------------------------------------------------------------
(* context-manager: truncation of the session log *)

\* an entry is [type, id, parentId, chars]: parentId is <<>> for null and
\* <<id>> otherwise, chars is the length of the text of message.content (0
\* for the structural entries, whose content is not looked at)
STRUCTURAL_TYPES ==
    {"session", "model_change", "thinking_level_change", "custom", "compaction"}

isStructuralEntry(entry) == entry.type \in STRUCTURAL_TYPES

estimateEntryTokens(entry) ==
    IF isStructuralEntry(entry) THEN 50
    ELSE IF (entry.chars + 3) \div 4 > 50 THEN (entry.chars + 3) \div 4 ELSE 50

RECURSIVE estimateTotalTokens(_)
estimateTotalTokens(entries) ==
    IF entries = <<>> THEN 0
    ELSE estimateEntryTokens(Head(entries)) + estimateTotalTokens(Tail(entries))

\* the indices of the content entries from index i on, in ascending order
RECURSIVE contentIndices(_, _)
contentIndices(entries, i) ==
    IF i > Len(entries) THEN <<>>
    ELSE IF ~isStructuralEntry(entries[i]) THEN <<i>> \o contentIndices(entries, i + 1)
    ELSE contentIndices(entries, i + 1)

\* the removal of the newest content entries instead of the oldest
removedContentIndices_newest(indices, keepRecentMessages) ==
    {indices[j] : j \in (keepRecentMessages + 1)..Len(indices)}

\* contentIndices.slice(0, keepContentStart), as a set
removedContentIndices(indices, keepRecentMessages) ==
    {indices[j] : j \in 1..(Len(indices) - keepRecentMessages)}

\* the entries from index i on whose index is not removed
RECURSIVE KeptEntries(_, _, _)
KeptEntries(entries, removed, i) ==
    IF i > Len(entries) THEN <<>>
    ELSE IF i \in removed THEN KeptEntries(entries, removed, i + 1)
    ELSE <<entries[i]>> \o KeptEntries(entries, removed, i + 1)

\* the number of entries of `kept` in front of the first one with the id
\* looked for, 0 when there is none
insertPosition(kept, id) ==
    LET found == {i \in 1..Len(kept) : kept[i].id = id}
    IN  IF found = {} THEN 0 ELSE (CHOOSE i \in found : \A j \in found : i <= j) - 1

\* the chain left as it is
Relink_keeps(kept) == kept

\* the re-linking loop: every entry points to the one in front of it
Relink(kept) ==
    [i \in 1..Len(kept) |->
        [kept[i] EXCEPT !.parentId = IF i = 1 THEN <<>> ELSE <<kept[i - 1].id>>]]

\* truncateSession: [kind, entries], of kind "null", "throws" (the TypeError
\* of entries[undefined].id, when nothing of the content is to be kept and
\* the loop over the kept entries runs) or "entries"; newId is the UUID drawn
truncateSession(entries, config, newId) ==
    LET indices == contentIndices(entries, 1)
        keepContentStart == Len(indices) - config.keepRecentMessages
        removed == removedContentIndices(indices, config.keepRecentMessages)
        kept == KeptEntries(entries, removed, 1)
    IN  IF estimateTotalTokens(entries) <= config.maxContextTokens
        THEN [kind |-> "null", entries |-> <<>>]
        ELSE IF Len(indices) <= config.keepRecentMessages
        THEN [kind |-> "null", entries |-> <<>>]
        ELSE IF keepContentStart + 1 > Len(indices) /\ kept # <<>>
        THEN [kind |-> "throws", entries |-> <<>>]
        ELSE LET position == IF keepContentStart + 1 > Len(indices) THEN 0
                             ELSE insertPosition(kept,
                                      entries[indices[keepContentStart + 1]].id)
                 compactionEntry ==
                     [type |-> "compaction", id |-> newId,
                      parentId |-> IF position > 0 THEN <<kept[position].id>> ELSE <<>>,
                      chars |-> 0]
             IN  [kind |-> "entries",
                  entries |-> Relink(SubSeq(kept, 1, position) \o <<compactionEntry>>
                                     \o SubSeq(kept, position + 1, Len(kept)))]

----------------------------------------------------------------------------
(* SpecLedger: the exported operations of chain-budget-store and of the    *)
(* failure tracker, called in any order while the days pass.               *)

RecordIds == {"moonshot", "ollama"}

ActiveIds == {"deepseek", "ollama"}

FailureIds == {"anthropic"}

Costs == {0, MaxCost}

\* lastOp after an operation that is not a load of the ledger
OtherOp == [name |-> "other", stale |-> FALSE, nonEmpty |-> FALSE]

\* the number of entries the ledger holds
LedgerSize(data) == Len(data.transactions) + Len(data.switchHistory)

\* the variables of the plugin's hooks, which the ledger operations leave alone
IdleHost ==
    /\ hostConfig = [primary |-> <<"anthropic", "claude-sonnet-4">>,
                     models |-> {}, aliased |-> FALSE, rest |-> OtherKeys]
    /\ switcherState = <<>>
    /\ budgetFile = <<>>
    /\ phase = <<>>
    /\ pending = <<>>

NoTranscript ==
    /\ transcript = [messages |-> <<>>, delivered |-> 0]
    /\ txIds = <<>>
    /\ sessionFile = <<>>
    /\ sessionsIndex = <<>>

InitLedger ==
    /\ now = 0
    /\ chainConfig \in ChainConfigs
    /\ chainBudgetFile = <<>>
    /\ failureFile = <<>>
    /\ lastOp = [name |-> "init", stale |-> FALSE, nonEmpty |-> FALSE]
    /\ IdleHost
    /\ NoTranscript

\* the clock reaches the next midnight (UTC)
Midnight ==
    /\ Today < MaxDay
    /\ now' = (Today + 1) * TicksPerDay
    /\ lastOp' = OtherOp
    /\ UNCHANGED <<chainConfig, chainBudgetFile, failureFile, hostVars, usageVars>>

LoadChainBudget ==
    /\ chainBudgetFile' = loadChainBudget(chainBudgetFile, chainConfig, Today)[1]
    /\ lastOp' = [name |-> "loadChainBudget",
                  stale |-> chainBudgetFile # <<>> /\ chainBudgetFile[1].date # Today,
                  nonEmpty |-> chainBudgetFile # <<>>
                               /\ chainBudgetFile[1].transactions # <<>>]
    /\ UNCHANGED <<now, chainConfig, failureFile, hostVars, usageVars>>

\* the operations below parse the file first and throw when it is missing
RecordProviderTransaction(providerId, costUsd) ==
    /\ chainBudgetFile # <<>>
    /\ LedgerSize(chainBudgetFile[1]) < MaxTx
    /\ chainBudgetFile' =
          <<recordProviderTransaction(chainBudgetFile[1], providerId, "model", costUsd, now)>>
    /\ lastOp' = OtherOp
    /\ UNCHANGED <<now, chainConfig, failureFile, hostVars, usageVars>>

SetActiveProvider(providerId) ==
    /\ chainBudgetFile # <<>>
    /\ chainBudgetFile' = <<setActiveProvider(chainBudgetFile[1], providerId)>>
    /\ lastOp' = OtherOp
    /\ UNCHANGED <<now, chainConfig, failureFile, hostVars, usageVars>>

RecordSwitch(to) ==
    /\ chainBudgetFile # <<>>
    /\ LedgerSize(chainBudgetFile[1]) < MaxTx
    /\ chainBudgetFile' =
          <<recordSwitch(chainBudgetFile[1], chainBudgetFile[1].activeProvider, to,
                         "Budget exhausted", now)>>
    /\ lastOp' = OtherOp
    /\ UNCHANGED <<now, chainConfig, failureFile, hostVars, usageVars>>

RecordFailure(providerId, max) ==
    LET saved == recordFailure(failureFile, providerId, Today, now)
    IN  /\ saved.providers[providerId].consecutiveFailures <= max
        /\ failureFile' = <<saved>>
        /\ lastOp' = OtherOp
        /\ UNCHANGED <<now, chainConfig, chainBudgetFile, hostVars, usageVars>>

RecordSuccess(providerId) ==
    /\ failureFile' = <<recordSuccess(failureFile, providerId, Today)>>
    /\ lastOp' = OtherOp
    /\ UNCHANGED <<now, chainConfig, chainBudgetFile, hostVars, usageVars>>

NextLedger ==
    \/ Midnight
    \/ LoadChainBudget
    \/ \E p \in RecordIds, c \in Costs : RecordProviderTransaction(p, c)
    \/ \E p \in ActiveIds : SetActiveProvider(p)
    \/ \E p \in ActiveIds : RecordSwitch(p)
    \/ \E p \in FailureIds : RecordFailure(p, MaxLedgerFailures)
    \/ \E p \in FailureIds : RecordSuccess(p)

SpecLedger == InitLedger /\ [][NextLedger]_vars

----------------------------------------------------------------------------
(* SpecFailures: the failure tracker, called for two providers in any      *)
(* order while the days pass                                               *)

TrackedIds == {"anthropic", "moonshot"}

TrackFailure(providerId) ==
    \E saved \in {recordFailure(failureFile, providerId, Today, now)} :
        /\ saved.providers[providerId].consecutiveFailures <= MaxFailures
        /\ failureFile' = <<saved>>
        /\ lastOp' = [name |-> "recordFailure", provider |-> providerId,
                      returned |-> saved.providers[providerId].consecutiveFailures]
        /\ UNCHANGED <<now, chainConfig, chainBudgetFile, hostVars, usageVars>>

TrackSuccess(providerId) ==
    /\ failureFile' = <<recordSuccess(failureFile, providerId, Today)>>
    /\ lastOp' = [name |-> "recordSuccess", provider |-> providerId]
    /\ UNCHANGED <<now, chainConfig, chainBudgetFile, hostVars, usageVars>>

NextFailures ==
    \/ Midnight
    \/ \E p \in TrackedIds : TrackFailure(p)
    \/ \E p \in TrackedIds : TrackSuccess(p)

SpecFailures == InitLedger /\ [][NextFailures]_vars

----------------------------------------------------------------------------
(* SpecProviders: getEnabledProviders and applyEnvOverrides of             *)
(* provider-chain on declared chains and environments                      *)

\* the chain of the env-override test: the test chain and two providers
\* whose ids hold a hyphen
HyphenChain ==
    TestChain \o << Provider("bytedance-ark", 0, 300000, TRUE, "doubao-seed-2.0-pro"),
                    Provider("openrouter-glm", 0, 300000, TRUE, "glm-5") >>

RECURSIVE Reversed(_)
Reversed(seq) ==
    IF seq = <<>> THEN <<>> ELSE Append(Reversed(Tail(seq)), Head(seq))

DeclaredChains == {TestChain, ShuffledChain, Reversed(ShuffledChain), HyphenChain}

\* a string as its runs of letters and the characters between them
WordsOf(id) ==
    CASE id = "bytedance-ark" -> <<"bytedance", "-", "ark">>
      [] id = "openrouter-glm" -> <<"openrouter", "-", "glm">>
      [] OTHER -> <<id>>

\* String.prototype.toUpperCase on a run of letters; other characters stay
UpperWord(word) ==
    CASE word = "anthropic" -> "ANTHROPIC"
      [] word = "moonshot" -> "MOONSHOT"
      [] word = "deepseek" -> "DEEPSEEK"
      [] word = "ollama" -> "OLLAMA"
      [] word = "bytedance" -> "BYTEDANCE"
      [] word = "ark" -> "ARK"
      [] word = "openrouter" -> "OPENROUTER"
      [] word = "glm" -> "GLM"
      [] OTHER -> word

toUpperCase(words) == [i \in 1..Len(words) |-> UpperWord(words[i])]

\* String.prototype.toLowerCase on the values that occur
toLowerCase(value) ==
    CASE value = "TRUE" -> "true"
      [] OTHER -> value

\* parseFloat on the values that occur: <<>> is NaN
parseFloat(value) ==
    CASE value = "5.00" -> <<500000>>
      [] value = "7.50" -> <<750000>>
      [] OTHER -> <<>>

\* the template literals `${provider.id.toUpperCase()}_DAILY_BUDGET_USD` and
\* `${provider.id.toUpperCase()}_ENABLED`
envKey(id) == toUpperCase(WordsOf(id)) \o <<"_", "DAILY_BUDGET_USD">>

enabledKey(id) == toUpperCase(WordsOf(id)) \o <<"_", "ENABLED">>

Unset == "undefined"

\* process.env[key]: <<>> is undefined
EnvLookup(env, key) ==
    IF key \in DOMAIN env /\ env[key] # Unset THEN <<env[key]>> ELSE <<>>

BudgetKeys ==
    {<<"ANTHROPIC", "_", "DAILY_BUDGET_USD">>,
     <<"BYTEDANCE", "_", "ARK", "_", "DAILY_BUDGET_USD">>,
     <<"BYTEDANCE", "-", "ARK", "_", "DAILY_BUDGET_USD">>}

EnabledKeys ==
    {<<"MOONSHOT", "_", "ENABLED">>,
     <<"OPENROUTER", "_", "GLM", "_", "ENABLED">>}

\* the environments of the process: each variable unset or set to one of
\* the values of the tests, to a text that is no number, or to "TRUE"
Environments ==
    {env \in [BudgetKeys \cup EnabledKeys -> {Unset, "5.00", "7.50", "abc", "false", "TRUE"}] :
        /\ \A k \in BudgetKeys : env[k] \in {Unset, "7.50", "abc"}
        /\ \A k \in EnabledKeys : env[k] \in {Unset, "false", "TRUE"}}

applyEnvOverrides(config, env) ==
    [i \in 1..Len(config) |->
        LET provider == config[i]
            envValue == EnvLookup(env, envKey(provider.id))
            enabledValue == EnvLookup(env, enabledKey(provider.id))
        IN  [provider EXCEPT
                !.maxDailyUsd = IF envValue # <<>> /\ parseFloat(envValue[1]) # <<>>
                                THEN parseFloat(envValue[1])[1] ELSE @,
                !.enabled = IF enabledValue # <<>>
                            THEN toLowerCase(enabledValue[1]) = "true" ELSE @]]

InitProviders ==
    /\ now = 0
    /\ chainConfig \in DeclaredChains
    /\ chainBudgetFile = <<>>
    /\ failureFile = <<>>
    /\ lastOp = [name |-> "init", stale |-> FALSE, nonEmpty |-> FALSE]
    /\ IdleHost
    /\ NoTranscript

\* a call of getEnabledProviders on the declared chain
GetEnabledProviders ==
    /\ lastOp' = [name |-> "getEnabledProviders",
                  returned |-> getEnabledProviders(chainConfig)]
    /\ UNCHANGED <<now, ledgerVars, hostVars, usageVars>>

\* a call of applyEnvOverrides on the declared chain in an environment
ApplyEnvOverrides(env) ==
    /\ lastOp' = [name |-> "applyEnvOverrides", env |-> env,
                  returned |-> applyEnvOverrides(chainConfig, env)]
    /\ UNCHANGED <<now, ledgerVars, hostVars, usageVars>>

NextProviders ==
    \/ GetEnabledProviders
    \/ \E env \in Environments : ApplyEnvOverrides(env)

SpecProviders == InitProviders /\ [][NextProviders]_vars

----------------------------------------------------------------------------
(* index: the cost table and the messages of an event *)

\* DEFAULT_COSTS, per 1K tokens, for the models that occur; <<>> is a miss
DEFAULT_COSTS(modelId) ==
    CASE modelId \in {<<"", "claude-sonnet-4-20250514">>,
                      <<"anthropic", "claude-sonnet-4-20250514">>,
                      <<"anthropic", "claude-sonnet-4">>}
            -> <<[input |-> 300, output |-> 1500]>>
      [] modelId \in {<<"", "kimi-k2.5">>, <<"moonshot", "kimi-k2.5">>}
            -> <<[input |-> 300, output |-> 1200]>>
      [] modelId \in {<<"", "deepseek-chat">>, <<"deepseek", "deepseek-chat">>}
            -> <<[input |-> 28, output |-> 42]>>
      [] modelId \in {<<"", "qwen3:8b">>, <<"ollama", "qwen3:8b">>}
            -> <<[input |-> 0, output |-> 0]>>
      [] OTHER -> <<>>

resolveModelCost(modelId) ==
    IF isLocalModel(modelId) THEN [input |-> 0, output |-> 0]
    ELSE IF DEFAULT_COSTS(modelId) # <<>> THEN DEFAULT_COSTS(modelId)[1]
    ELSE [input |-> 0, output |-> 0]

\* the usage objects of a turn: token counts alone, or with a cost.total
Usages ==
    {[input |-> <<1000>>, output |-> <<1000>>, cost |-> <<>>],
     [input |-> <<1000>>, output |-> <<1000>>, cost |-> <<(3 * MaxCost) \div 2>>]}

AssistantMessage(id, modelId, usage, timestamp) ==
    [id |-> id, role |-> "assistant", usage |-> <<usage>>,
     provider |-> modelId[1], model |-> modelId[2], timestamp |-> timestamp]

----------------------------------------------------------------------------
(* SpecCharge: trackChainUsage for turns served by each provider of a      *)
(* chain that holds ids outside the built-in prefixes                      *)

InitCharge ==
    /\ now = 0
    /\ chainConfig = HyphenChain
    /\ chainBudgetFile = <<>>
    /\ failureFile = <<>>
    /\ lastOp = [name |-> "init", stale |-> FALSE, nonEmpty |-> FALSE]
    /\ IdleHost
    /\ NoTranscript

\* a turn served by the general model of provider i of the chain ends, and
\* agent_end calls trackChainUsage with its assistant message
ServedTurn(i, usage) ==
    /\ i \in 1..Len(chainConfig)
    /\ now + 1 < (MaxDay + 1) * TicksPerDay
    /\ now' = now + 1
    /\ \E modelId \in {resolveFullModelId(chainConfig[i].id,
                                          getModelForTask(chainConfig[i], "general"))} :
       \E tracked \in
          {trackChainUsage(chainBudgetFile, chainConfig, modelId,
                           <<AssistantMessage(now + 1, modelId, usage, <<now + 1>>)>>,
                           resolveModelCost(modelId), todayString(now + 1), now + 1)} :
        /\ Len(tracked[1][1].transactions) <= MaxTurns
        /\ chainBudgetFile' = tracked[1]
        /\ lastOp' = [name |-> "served", providerId |-> chainConfig[i].id,
                      result |-> tracked[2]]
    /\ UNCHANGED <<chainConfig, failureFile, hostVars, usageVars>>

NextCharge ==
    \E i \in 1..Len(HyphenChain), usage \in Usages : ServedTurn(i, usage)

SpecCharge == InitCharge /\ [][NextCharge]_vars

----------------------------------------------------------------------------
(* SpecChain: the plugin registered in chain mode *)

\* loadChainBudgetWithStatus: the load, and whether it produced a fresh document
loadChainBudgetWithStatus(file, config, today) ==
    [file |-> loadChainBudget(file, config, today)[1],
     data |-> loadChainBudget(file, config, today)[2],
     wasReset |-> file = <<>> \/ file[1].date # today]

\* a fresh installation: no data files yet, and the host configured for the
\* model of the first provider of the chain
InitChain ==
    /\ now = 0
    /\ chainConfig \in ChainConfigs
    /\ chainBudgetFile = <<>>
    /\ failureFile = <<>>
    /\ lastOp = [name |-> "init", stale |-> FALSE, nonEmpty |-> FALSE]
    /\ hostConfig =
          [primary |-> resolveFullModelId(getEnabledProviders(chainConfig)[1].id,
                          getModelForTask(getEnabledProviders(chainConfig)[1], "general")),
           models |-> {}, aliased |-> FALSE, rest |-> OtherKeys]
    /\ switcherState = <<>>
    /\ budgetFile = <<>>
    /\ phase = <<>>
    /\ pending = <<>>
    /\ NoTranscript

Tick ==
    /\ now + 1 < (MaxDay + 1) * TicksPerDay
    /\ now' = now + 1
    /\ lastOp' = OtherOp
    /\ UNCHANGED <<ledgerVars, hostVars, usageVars>>

\* the host process ends (it is stopped, or restarted from outside)
HostStop ==
    /\ phase # <<>>
    /\ phase' = <<>>
    /\ pending' = <<>>
    /\ lastOp' = OtherOp
    /\ UNCHANGED <<now, ledgerVars, hostConfig, switcherState, budgetFile, usageVars>>

\* the host starts on the configured primary model and registers the plugin
RegisterChainMode(outcome) ==
    LET status == loadChainBudgetWithStatus(chainBudgetFile, chainConfig, Today)
        restored == restoreFirstProvider(hostConfig, status.file, chainConfig, Today)
        optimize == /\ getActiveProvider(status.data) = "anthropic"
                    /\ ~isOptimizationApplied(hostConfig)
    IN  /\ phase = <<>>
        /\ chainBudgetFile' = IF status.wasReset THEN restored.file ELSE status.file
        /\ hostConfig' = IF status.wasReset THEN restored.host
                         ELSE IF optimize THEN applyOptimizedConfig(hostConfig)
                         ELSE hostConfig
        /\ phase' = IF status.wasReset /\ restored.restart /\ outcome = "ok"
                    THEN <<>> ELSE <<resolveCurrentModel(hostConfig)>>
        /\ pending' = <<>>
        /\ lastOp' = [name |-> "load", wasReset |-> status.wasReset,
                      stale |-> chainBudgetFile # <<>> /\ chainBudgetFile[1].date # Today,
                      restarts |-> IF status.wasReset /\ restored.restart THEN 1 ELSE 0]
        /\ UNCHANGED <<now, chainConfig, failureFile, switcherState, budgetFile, usageVars>>

Prompts == {"hello", "fix the bug in main.ts"}

\* the before_agent_start hook of chain mode; what it returns is not state
BeforeAgentStartChain(prompt) ==
    LET checked == checkChainBudget(chainBudgetFile, chainConfig, Today, prompt, <<>>)
    IN  /\ phase # <<>>
        /\ chainBudgetFile' = checked[1]
        /\ lastOp' = [name |-> "before_agent_start", decision |-> <<checked[2]>>,
                      restarts |-> 0]
        /\ UNCHANGED <<now, chainConfig, failureFile, hostVars, usageVars>>

Remove(seq, i) == SubSeq(seq, 1, i - 1) \o SubSeq(seq, i + 1, Len(seq))

\* the suspended switches once one of them has written the host config
Preempt(seq) == [i \in 1..Len(seq) |-> [seq[i] EXCEPT !.preempted = TRUE]]

\* the agent_end hook of chain mode, for a turn of the running model that
\* ends with one new assistant message; `truncated` tells whether
\* truncateActiveSession truncates the session, `outcome` how the restart
\* command ends when this run of the hook invokes it
AgentEndChain(usage, truncated, outcome) ==
    /\ phase # <<>>
    /\ Len(pending) < MaxPending
    /\ \E tracked \in {trackChainUsage(chainBudgetFile, chainConfig, phase[1],
                          <<AssistantMessage(now, phase[1], usage, <<now>>)>>,
                          resolveModelCost(phase[1]), Today, now)} :
        /\ Len(tracked[1][1].transactions) <= MaxTurns
        /\ IF tracked[2] = <<>>
           THEN /\ chainBudgetFile' = tracked[1]
                /\ lastOp' = [name |-> "agent_end", decision |-> <<>>, restarts |-> 0]
                /\ UNCHANGED <<hostConfig, phase, pending>>
           ELSE \E checked \in {checkChainBudget(tracked[1], chainConfig, Today, "", <<>>)} :
                LET decision == checked[2]
                    begin == IF decision.action = "switch_provider"
                             THEN switchToProvider_begin(chainConfig,
                                                         decision.nextProvider[1])
                             ELSE "none"
                    waiting == IF begin = "await"
                               THEN Append(pending,
                                           [providerId |-> decision.nextProvider[1],
                                            taskType |-> decision.taskType,
                                            preempted |-> FALSE])
                               ELSE pending
                IN  IF begin = "go"
                    THEN \E switched \in
                            {switchToProvider(hostConfig, checked[1], chainConfig,
                                              decision.nextProvider[1],
                                              decision.taskType,
                                              CHOOSE probe \in Probes : probe.ollamaUp,
                                              Today, now)} :
                         /\ chainBudgetFile' = switched.file
                         /\ hostConfig' = switched.host
                         /\ phase' = IF outcome = "ok" THEN <<>> ELSE phase
                         /\ pending' = IF outcome = "ok" THEN <<>> ELSE Preempt(pending)
                         /\ lastOp' = [name |-> "agent_end", decision |-> <<decision>>,
                                       restarts |-> IF outcome = "fail" /\ truncated
                                                    THEN 2 ELSE 1]
                    ELSE /\ chainBudgetFile' = checked[1]
                         /\ hostConfig' = hostConfig
                         /\ phase' = IF truncated /\ outcome = "ok" THEN <<>> ELSE phase
                         /\ pending' = IF truncated /\ outcome = "ok" THEN <<>>
                                       ELSE waiting
                         /\ lastOp' = [name |-> "agent_end", decision |-> <<decision>>,
                                       restarts |-> IF truncated THEN 1 ELSE 0]
    /\ UNCHANGED <<now, chainConfig, failureFile, switcherState, budgetFile, usageVars>>

\* a suspended switchToProvider resumes with the answers of the Ollama server
ResumeSwitchToProvider(i, probe, outcome) ==
    /\ phase # <<>>
    /\ i \in 1..Len(pending)
    /\ \E switched \in
          {switchToProvider(hostConfig, chainBudgetFile, chainConfig,
                            pending[i].providerId, pending[i].taskType, probe,
                            Today, now)} :
        /\ chainBudgetFile' = switched.file
        /\ hostConfig' = switched.host
        /\ phase' = IF switched.restart /\ outcome = "ok" THEN <<>> ELSE phase
        /\ pending' = IF switched.restart /\ outcome = "ok" THEN <<>>
                      ELSE IF switched.ret THEN Preempt(Remove(pending, i))
                      ELSE Remove(pending, i)
        /\ lastOp' = [name |-> "switch_done", wrote |-> switched.ret,
                      second |-> pending[i].preempted,
                      aborts |-> ProbeFails(probe),
                      restarts |-> IF switched.restart THEN 1 ELSE 0]
    /\ UNCHANGED <<now, chainConfig, failureFile, switcherState, budgetFile, usageVars>>

NextChain ==
    \/ Tick
    \/ HostStop
    \/ \E outcome \in RestartOutcomes : RegisterChainMode(outcome)
    \/ \E prompt \in Prompts : BeforeAgentStartChain(prompt)
    \/ \E usage \in Usages, truncated \in BOOLEAN, outcome \in RestartOutcomes :
            AgentEndChain(usage, truncated, outcome)
    \/ \E i \in 1..MaxPending, probe \in Probes, outcome \in RestartOutcomes :
            ResumeSwitchToProvider(i, probe, outcome)

SpecChain == InitChain /\ [][NextChain]_vars

----------------------------------------------------------------------------
(* SpecPaid: the hooks of chain mode on chains in which every provider has *)
(* a daily budget                                                          *)

\* the paid providers of the test chain, and those of the shuffled chain,
\* two of which share a priority
PaidChains == {SubSeq(TestChain, 1, 3), SubSeq(ShuffledChain, 2, 4)}

InitPaid ==
    /\ now = 0
    /\ chainConfig \in PaidChains
    /\ chainBudgetFile = <<>>
    /\ failureFile = <<>>
    /\ lastOp = [name |-> "init", stale |-> FALSE, nonEmpty |-> FALSE]
    /\ hostConfig =
          [primary |-> resolveFullModelId(getEnabledProviders(chainConfig)[1].id,
                          getModelForTask(getEnabledProviders(chainConfig)[1], "general")),
           models |-> {}, aliased |-> FALSE, rest |-> OtherKeys]
    /\ switcherState = <<>>
    /\ budgetFile = <<>>
    /\ phase = <<>>
    /\ pending = <<>>
    /\ NoTranscript

NextPaid ==
    \/ Tick
    \/ HostStop
    \/ \E outcome \in RestartOutcomes : RegisterChainMode(outcome)
    \/ \E prompt \in Prompts : BeforeAgentStartChain(prompt)
    \/ \E usage \in Usages, truncated \in BOOLEAN, outcome \in RestartOutcomes :
            AgentEndChain(usage, truncated, outcome)

SpecPaid == InitPaid /\ [][NextPaid]_vars

\* SpecFailover: the hooks of chain mode within one clock tick, next to the
\* exported operations of the failure tracker
NextFailover ==
    \/ \E outcome \in RestartOutcomes : RegisterChainMode(outcome)
    \/ \E usage \in Usages, truncated \in BOOLEAN, outcome \in RestartOutcomes :
            AgentEndChain(usage, truncated, outcome)
    \/ \E i \in 1..MaxPending, probe \in Probes, outcome \in RestartOutcomes :
            ResumeSwitchToProvider(i, probe, outcome)
    \/ \E p \in FailureIds : RecordFailure(p, FAILURE_THRESHOLD)
    \/ \E p \in FailureIds : RecordSuccess(p)

SpecFailover == InitChain /\ [][NextFailover]_vars

----------------------------------------------------------------------------
(* SpecInject: what the before_agent_start hook of chain mode prepends     *)

CONTEXT_INJECTION_THRESHOLD == 150000

InjectPrompts ==
    Prompts \cup {"review the security of the deployment", "explain this error"}

PromptLength(prompt) ==
    CASE prompt = "hello" -> 5
      [] prompt = "fix the bug in main.ts" -> 22
      [] prompt = "review the security of the deployment" -> 37
      [] prompt = "explain this error" -> 18

\* the matches of COMPLEX_TASK_KEYWORDS and of MEDIUM_TASK_KEYWORDS
ComplexWordsOf(prompt) ==
    CASE prompt = "review the security of the deployment"
            -> {"review", "security", "deployment"}
      [] OTHER -> {}

MediumWordsOf(prompt) ==
    CASE prompt = "explain this error" -> {"explain"}
      [] OTHER -> {}

\* the messages of an event, each with the length of its content's text:
\* none, a short and a long conversation, and two that fill the window
EventHistories ==
    {<<>>, <<[content |-> 40000]>>, <<[content |-> 60000]>>,
     <<[content |-> 600004]>>, <<[content |-> 300000], [content |-> 300004]>>}

RECURSIVE ContentLength(_)
ContentLength(messages) ==
    IF messages = <<>> THEN 0
    ELSE Head(messages).content + ContentLength(Tail(messages))

estimateContextTokens(prompt, messages) ==
    (PromptLength(prompt) + ContentLength(messages) + 3) \div 4

detectTaskComplexity(prompt, messages) ==
    IF ComplexWordsOf(prompt) # {} THEN "complex"
    ELSE IF ContentLength(messages) > 50000 \/ Len(messages) > 10 THEN "complex"
    ELSE IF MediumWordsOf(prompt) # {} THEN "medium"
    ELSE IF PromptLength(prompt) > 200 \/ Len(messages) > 3 THEN "medium"
    ELSE "simple"

\* getModelRecommendation: <<>> for null, else the model it recommends
getModelRecommendation(complexity, currentModel) ==
    IF complexity = "simple"
       /\ (Includes(currentModel, "opus") \/ Includes(currentModel, "sonnet"))
    THEN <<"[MODEL RECOMMENDATION] haiku">>
    ELSE IF complexity = "complex" /\ Includes(currentModel, "haiku")
    THEN <<"[MODEL RECOMMENDATION] opus">>
    ELSE <<>>

getOptimizationRules(providerId) ==
    IF providerId = "anthropic" THEN "ANTHROPIC_OPTIMIZATION_RULES"
    ELSE "GENERAL_OPTIMIZATION_RULES"

Haiku == <<"anthropic", "claude-3-5-haiku-20241022">>

\* the before_agent_start hook of chain mode with what it returns:
\* prependContext is the parts that are joined, <<>> when it returns undefined
BeforeAgentStartInject(prompt, messages, model, disabled, routing) ==
    /\ phase # <<>>
    /\ \E checked \in {checkChainBudget(chainBudgetFile, chainConfig, Today, prompt, <<>>)} :
        LET estimatedTokens == estimateContextTokens(prompt, messages)
            recommendation ==
                getModelRecommendation(detectTaskComplexity(prompt, messages), model)
            rules == IF ~disabled /\ estimatedTokens <= CONTEXT_INJECTION_THRESHOLD
                     THEN <<getOptimizationRules(checked[2].currentProvider)>>
                     ELSE <<>>
            advice == IF routing = "advisory" THEN recommendation ELSE <<>>
        IN  /\ chainBudgetFile' = checked[1]
            /\ lastOp' = [name |-> "before_agent_start", decision |-> <<checked[2]>>,
                          restarts |-> 0, estimatedTokens |-> estimatedTokens,
                          disabled |-> disabled, routing |-> routing,
                          prependContext |-> rules \o advice]
    /\ UNCHANGED <<now, chainConfig, failureFile, hostVars, usageVars>>

NextInject ==
    \/ \E outcome \in RestartOutcomes : RegisterChainMode(outcome)
    \/ \E prompt \in InjectPrompts, messages \in EventHistories,
          model \in {phase[i] : i \in 1..Len(phase)} \cup {Haiku},
          disabled \in BOOLEAN, routing \in {"off", "advisory"} :
            BeforeAgentStartInject(prompt, messages, model, disabled, routing)

SpecInject == InitChain /\ [][NextInject]_vars

----------------------------------------------------------------------------
(* SpecLegacy: the plugin registered in legacy mode *)

\* a fresh installation: no data files yet
InitLegacy ==
    /\ now = 0
    /\ chainConfig = TestChain
    /\ chainBudgetFile = <<>>
    /\ failureFile = <<>>
    /\ lastOp = [name |-> "init", stale |-> FALSE, nonEmpty |-> FALSE]
    /\ IdleHost
    /\ NoTranscript

\* the host starts on the configured primary model and registers the plugin
\* (when checkBudget throws, register() throws before it installs the hooks,
\* and the host is without the plugin until it starts again)
RegisterLegacyMode(outcome) ==
    LET state == loadSwitcherState(switcherState)
        local == state # <<>> /\ state[1].mode = "local"
        checked == checkBudget(budgetFile, DAILY_BUDGET_USD, Today, "", <<>>)
        healthy == checked[2].remaining_usd > 0
        restored == restoreCloudModel(hostConfig, state)
    IN  /\ phase = <<>>
        /\ IF local /\ loadBudgetThrows(budgetFile)
           THEN /\ lastOp' = [name |-> "failed", hook |-> "load", escaped |-> TRUE]
                /\ UNCHANGED <<budgetFile, hostConfig, switcherState, phase, pending>>
           ELSE /\ budgetFile' = IF local THEN checked[1] ELSE budgetFile
                /\ hostConfig' = IF local /\ healthy THEN restored.host ELSE hostConfig
                /\ switcherState' = IF local /\ healthy THEN restored.state
                                    ELSE switcherState
                /\ phase' = IF local /\ healthy /\ restored.restart /\ outcome = "ok"
                            THEN <<>> ELSE <<resolveCurrentModel(hostConfig)>>
                /\ pending' = <<>>
                /\ lastOp' = [name |-> "load",
                              restarts |-> IF local /\ healthy /\ restored.restart
                                           THEN 1 ELSE 0]
        /\ UNCHANGED <<now, ledgerVars, usageVars>>

\* the before_agent_start hook of legacy mode; what it returns is not state.
\* Its body is not inside a try block: what checkBudget throws reaches the host
BeforeAgentStartLegacy(prompt) ==
    LET checked == checkBudget(budgetFile, DAILY_BUDGET_USD, Today, prompt, <<>>)
    IN  /\ phase # <<>>
        /\ IF loadBudgetThrows(budgetFile)
           THEN /\ budgetFile' = budgetFile
                /\ lastOp' = [name |-> "failed", hook |-> "before_agent_start",
                              escaped |-> TRUE]
           ELSE /\ budgetFile' = checked[1]
                /\ lastOp' = [name |-> "before_agent_start",
                              decision |-> <<checked[2]>>, restarts |-> 0]
        /\ UNCHANGED <<now, ledgerVars, hostConfig, switcherState, phase, pending,
                       usageVars>>

\* the agent_end hook of legacy mode, for a turn of the running model that
\* ends with one new assistant message; the catch block of the hook ends it
\* when trackUsage throws
AgentEndLegacy(usage, truncated, outcome) ==
    /\ phase # <<>>
    /\ Len(pending) < MaxPending
    /\ ~loadBudgetThrows(budgetFile)
    /\ \E tracked \in {trackUsage(budgetFile, phase[1],
                          <<AssistantMessage(now, phase[1], usage, <<now>>)>>,
                          resolveModelCost(phase[1]), DAILY_BUDGET_USD, Today, now)} :
        /\ Len(tracked[1].transactions) <= MaxTurns
        /\ \E checked \in {checkBudget(tracked, DAILY_BUDGET_USD, Today, "", <<>>)} :
            LET decision == checked[2]
                calls == decision.action = "force_local" /\ decision.task_type # <<>>
                skips == switchToLocalModel_skips(loadSwitcherState(switcherState))
                waiting == IF calls /\ ~skips
                           THEN Append(pending, [taskType |-> decision.task_type[1],
                                                 preempted |-> FALSE])
                           ELSE pending
            IN  /\ budgetFile' = checked[1]
                /\ phase' = IF truncated /\ outcome = "ok" THEN <<>> ELSE phase
                /\ pending' = IF truncated /\ outcome = "ok" THEN <<>> ELSE waiting
                /\ lastOp' = [name |-> "agent_end", decision |-> <<decision>>,
                              switch |-> IF ~calls THEN "none"
                                         ELSE IF skips THEN "skipped" ELSE "awaiting",
                              truncated |-> truncated,
                              restarts |-> IF truncated THEN 1 ELSE 0]
    /\ UNCHANGED <<now, ledgerVars, hostConfig, switcherState, usageVars>>

\* a suspended switchToLocalModel resumes with the answers of the Ollama server
ResumeSwitchToLocal(i, probe, outcome) ==
    /\ phase # <<>>
    /\ i \in 1..Len(pending)
    /\ \E switched \in
          {switchToLocalModel(hostConfig, switcherState, pending[i].taskType,
                              getLocalModels, probe, now)} :
        /\ hostConfig' = switched.host
        /\ switcherState' = switched.state
        /\ phase' = IF switched.restart /\ outcome = "ok" THEN <<>> ELSE phase
        /\ pending' = IF switched.restart /\ outcome = "ok" THEN <<>>
                      ELSE IF switched.ret THEN Preempt(Remove(pending, i))
                      ELSE Remove(pending, i)
        /\ lastOp' = [name |-> "switch_done", wrote |-> switched.ret,
                      second |-> pending[i].preempted,
                      aborts |-> ProbeFails(probe),
                      restarts |-> IF switched.restart THEN 1 ELSE 0]
    /\ UNCHANGED <<now, ledgerVars, budgetFile, usageVars>>

\* the agent_end hook of legacy mode when trackUsage throws: the catch
\* block logs the error and the hook returns
AgentEndLegacyCaught ==
    /\ phase # <<>>
    /\ loadBudgetThrows(budgetFile)
    /\ lastOp' = [name |-> "failed", hook |-> "agent_end", escaped |-> FALSE]
    /\ UNCHANGED <<now, ledgerVars, hostVars, usageVars>>

NextLegacy ==
    \/ Tick
    \/ HostStop
    \/ \E outcome \in RestartOutcomes : RegisterLegacyMode(outcome)
    \/ \E prompt \in Prompts : BeforeAgentStartLegacy(prompt)
    \/ \E usage \in Usages, truncated \in BOOLEAN, outcome \in RestartOutcomes :
            AgentEndLegacy(usage, truncated, outcome)
    \/ \E i \in 1..MaxPending, probe \in Probes, outcome \in RestartOutcomes :
            ResumeSwitchToLocal(i, probe, outcome)

SpecLegacy == InitLegacy /\ [][NextLegacy]_vars

----------------------------------------------------------------------------
(* SpecFaults: legacy mode with a host process that can end while one of   *)
(* the plugin's calls of fs.writeFileSync is under way                     *)

\* the host process ends inside the write of budget.json that trackUsage
\* performs (in loadBudget or in recordTransaction)
AgentEndLegacyKilled(usage) ==
    /\ phase # <<>>
    /\ ~loadBudgetThrows(budgetFile)
    /\ trackUsage(budgetFile, phase[1],
                  <<AssistantMessage(now, phase[1], usage, <<now>>)>>,
                  resolveModelCost(phase[1]), DAILY_BUDGET_USD, Today, now) # budgetFile
    /\ budgetFile' = <<Torn>>
    /\ phase' = <<>>
    /\ pending' = <<>>
    /\ lastOp' = [name |-> "killed", hook |-> "agent_end"]
    /\ UNCHANGED <<now, ledgerVars, hostConfig, switcherState, usageVars>>

\* the host process ends inside saveSwitcherState, after switchToLocalModel
\* has written the host config
ResumeSwitchToLocalKilled(i, probe) ==
    /\ phase # <<>>
    /\ i \in 1..Len(pending)
    /\ ~ProbeFails(probe)
    /\ hostConfig' = switchToLocalModel(hostConfig, switcherState, pending[i].taskType,
                                        getLocalModels, probe, now).host
    /\ switcherState' = <<Torn>>
    /\ phase' = <<>>
    /\ pending' = <<>>
    /\ lastOp' = [name |-> "killed", hook |-> "switchToLocalModel"]
    /\ UNCHANGED <<now, ledgerVars, budgetFile, usageVars>>

NextFaults ==
    \/ Tick
    \/ HostStop
    \/ \E outcome \in RestartOutcomes : RegisterLegacyMode(outcome)
    \/ \E prompt \in Prompts : BeforeAgentStartLegacy(prompt)
    \/ \E usage \in Usages, truncated \in BOOLEAN, outcome \in RestartOutcomes :
            AgentEndLegacy(usage, truncated, outcome)
    \/ AgentEndLegacyCaught
    \/ \E i \in 1..MaxPending, probe \in Probes, outcome \in RestartOutcomes :
            ResumeSwitchToLocal(i, probe, outcome)
    \/ \E usage \in Usages : AgentEndLegacyKilled(usage)
    \/ \E i \in 1..MaxPending, probe \in Probes : ResumeSwitchToLocalKilled(i, probe)

SpecFaults == InitLegacy /\ [][NextFaults]_vars

----------------------------------------------------------------------------
(* SpecSwitcher: the exported switch operations of model-switcher, called  *)
(* with every task type on the provider chain of the switcher's test suite *)

TaskTypes == {"general", "coding", "vision"}

TaskModels(provider, coding, vision) ==
    [provider EXCEPT !.models.coding = coding, !.models.vision = vision]

\* createTestChainConfig of the switcher's tests: the providers of TestChain
\* with their models per task
SwitcherChain ==
    << TaskModels(TestChain[1], <<"", "claude-sonnet-4">>, <<"", "claude-sonnet-4">>),
       TaskModels(TestChain[2], NoModel, <<"", "kimi-k2.5">>),
       TaskModels(TestChain[3], <<"", "deepseek-chat">>, NoModel),
       TaskModels(TestChain[4], <<"", "qwen3-coder:30b">>, <<"", "qwen3-vl:8b">>) >>

\* the providers the calls name: a cloud provider, the local one and one
\* that the chain does not have
SwitchTargets == {"anthropic", "ollama", "unknown"}

InitSwitcher ==
    /\ now = 0
    /\ chainConfig = SwitcherChain
    /\ chainBudgetFile = <<>>
    /\ failureFile = <<>>
    /\ lastOp = [name |-> "init", stale |-> FALSE, nonEmpty |-> FALSE]
    /\ IdleHost
    /\ NoTranscript

\* a call of switchToProvider, with the answers of the Ollama server
SwitchToProvider(providerId, taskType, probe) ==
    /\ \E loaded \in {loadChainBudget(chainBudgetFile, chainConfig, Today)} :
            Len(loaded[2].switchHistory) < MaxSwitches
    /\ \E begin \in {switchToProvider_begin(chainConfig, providerId)} :
        IF begin \in {"not_found", "disabled"}
        THEN /\ lastOp' = [name |-> "switchToProvider", providerId |-> providerId,
                           taskType |-> taskType, probe |-> probe, ret |-> FALSE]
             /\ UNCHANGED <<chainBudgetFile, hostConfig>>
        ELSE \E switched \in
                {switchToProvider(hostConfig, chainBudgetFile, chainConfig,
                                  providerId, taskType, probe, Today, now)} :
             /\ chainBudgetFile' = switched.file
             /\ hostConfig' = switched.host
             /\ lastOp' = [name |-> "switchToProvider", providerId |-> providerId,
                           taskType |-> taskType, probe |-> probe,
                           ret |-> switched.ret]
    /\ UNCHANGED <<now, chainConfig, failureFile, switcherState, budgetFile, phase,
                   pending, usageVars>>

\* a call of switchToLocalModel, with the answers of the Ollama server
SwitchToLocalModel(taskType, probe) ==
    /\ \E existing \in {loadSwitcherState(switcherState)} :
        IF switchToLocalModel_skips(existing)
        THEN /\ lastOp' = [name |-> "switchToLocalModel", providerId |-> "ollama",
                           taskType |-> taskType, probe |-> probe, ret |-> FALSE]
             /\ UNCHANGED <<hostConfig, switcherState>>
        ELSE \E switched \in
                {switchToLocalModel(hostConfig, existing, taskType, getLocalModels,
                                    probe, now)} :
             /\ hostConfig' = switched.host
             /\ switcherState' = switched.state
             /\ lastOp' = [name |-> "switchToLocalModel", providerId |-> "ollama",
                           taskType |-> taskType, probe |-> probe,
                           ret |-> switched.ret]
    /\ UNCHANGED <<now, ledgerVars, budgetFile, phase, pending, usageVars>>

\* a call of restoreCloudModel
RestoreCloudModel ==
    /\ \E restored \in {restoreCloudModel(hostConfig, loadSwitcherState(switcherState))} :
        /\ hostConfig' = restored.host
        /\ switcherState' = restored.state
    /\ lastOp' = OtherOp
    /\ UNCHANGED <<now, ledgerVars, budgetFile, phase, pending, usageVars>>

NextSwitcher ==
    \/ \E providerId \in SwitchTargets, taskType \in TaskTypes, probe \in Probes :
            SwitchToProvider(providerId, taskType, probe)
    \/ \E taskType \in TaskTypes, probe \in Probes : SwitchToLocalModel(taskType, probe)
    \/ RestoreCloudModel

SpecSwitcher == InitSwitcher /\ [][NextSwitcher]_vars

----------------------------------------------------------------------------
(* SpecGate: the budget gate of legacy mode on a ledger of one day after   *)
(* the other                                                               *)

\* the costs of the turns: 0.02, 1, 4 and 5 dollars
GateCosts == {2000, 100000, 400000, 500000}

\* trackUsage for a turn of the given cost
SpendLegacy(costUsd) ==
    /\ \E loaded \in {loadBudget(budgetFile, DAILY_BUDGET_USD, Today)} :
        /\ Len(loaded[2].transactions) < MaxTurns
        /\ budgetFile' = <<recordTransaction(loaded[2], hostConfig.primary, costUsd, now)>>
    /\ lastOp' = OtherOp
    /\ UNCHANGED <<now, ledgerVars, hostConfig, switcherState, phase, pending, usageVars>>

CheckBudget(prompt) ==
    /\ \E checked \in {checkBudget(budgetFile, DAILY_BUDGET_USD, Today, prompt, <<>>)} :
        /\ budgetFile' = checked[1]
        /\ lastOp' = [name |-> "checkBudget", decision |-> checked[2]]
    /\ UNCHANGED <<now, ledgerVars, hostConfig, switcherState, phase, pending, usageVars>>

NextGate ==
    \/ Midnight
    \/ \E costUsd \in GateCosts : SpendLegacy(costUsd)
    \/ \E prompt \in Prompts : CheckBudget(prompt)

SpecGate == InitLegacy /\ [][NextGate]_vars

----------------------------------------------------------------------------
(* SpecUsage: a session whose messages the host replays to agent_end *)

SessionModel == <<"anthropic", "claude-sonnet-4">>

InitUsage ==
    /\ now = 0
    /\ chainConfig = TestChain
    /\ chainBudgetFile = <<>>
    /\ failureFile = <<>>
    /\ lastOp = [name |-> "init", stale |-> FALSE, nonEmpty |-> FALSE]
    /\ IdleHost
    /\ NoTranscript

\* a model call of the session ends: the host appends the assistant message,
\* stamped with the time of its creation or not stamped at all
AssistantTurn(usage, stamped) ==
    /\ Len(transcript.messages) < MaxMessages
    /\ now + 1 < (MaxDay + 1) * TicksPerDay
    /\ now' = now + 1
    /\ transcript' =
          [transcript EXCEPT !.messages =
              Append(@, AssistantMessage(Len(transcript.messages) + 1, SessionModel,
                                         usage,
                                         IF stamped THEN <<now + 1>> ELSE <<>>))]
    /\ lastOp' = OtherOp
    /\ UNCHANGED <<ledgerVars, hostVars, txIds, sessionFile, sessionsIndex>>

\* trackChainUsage as agent_end calls it, for an event that carries the
\* messages of the session from index `from` on: the whole session, or the
\* messages that no event has delivered yet
TrackChainUsage(from) ==
    /\ from \in 1..Len(transcript.messages)
    /\ from \in {1, transcript.delivered + 1}
    /\ \E tracked \in
          {trackChainUsage(chainBudgetFile, chainConfig, SessionModel,
                           SubSeq(transcript.messages, from, Len(transcript.messages)),
                           resolveModelCost(SessionModel), Today, now)} :
        LET kept == IF chainBudgetFile = <<>> \/ chainBudgetFile[1].date # Today
                    THEN <<>> ELSE txIds
        IN  /\ Len(tracked[1][1].transactions) <= MaxTurns
            /\ chainBudgetFile' = tracked[1]
            /\ txIds' = IF tracked[2] = <<>> THEN kept
                        ELSE Append(kept, tracked[2][1].aggregated.ids)
            /\ transcript' = [transcript EXCEPT !.delivered = Len(transcript.messages)]
            /\ lastOp' = [name |-> "trackChainUsage",
                          ids |-> {transcript.messages[i].id :
                                      i \in from..Len(transcript.messages)},
                          replayed |-> from <= transcript.delivered]
    /\ UNCHANGED <<now, chainConfig, failureFile, hostVars, sessionFile, sessionsIndex>>

NextUsage ==
    \/ Midnight
    \/ \E usage \in Usages, stamped \in BOOLEAN : AssistantTurn(usage, stamped)
    \/ \E from \in 1..MaxMessages : TrackChainUsage(from)

SpecUsage == InitUsage /\ [][NextUsage]_vars

----------------------------------------------------------------------------
(* SpecAggregate: aggregateUsageFromMessages on the messages of an event   *)

CloudQwen == <<"openrouter", "qwen/qwen3.5-plus">>

LocalQwen == <<"ollama", "qwen3:8b">>

\* a usage object without any of the token fields
NoTokens == [input |-> <<>>, output |-> <<>>, cost |-> <<>>]

\* the messages of an event: assistant messages with a usage, of a cloud
\* model, a local model, a cloud model with the name of a local family, or
\* without provider and model, stamped or not; an assistant message without
\* usage, one whose usage has no token counts, and a user message
MessageShapes ==
    {[role |-> "assistant", usage |-> <<usage>>, provider |-> modelId[1],
      model |-> modelId[2], timestamp |-> timestamp] :
        usage \in Usages, modelId \in {SessionModel, LocalQwen, CloudQwen, NoModel},
        timestamp \in {<<>>, <<1>>, <<2>>}}
    \cup {[role |-> "assistant", usage |-> usage, provider |-> SessionModel[1],
           model |-> SessionModel[2], timestamp |-> <<2>>] :
             usage \in {<<>>, <<NoTokens>>}}
    \cup {[role |-> "user", usage |-> <<usage>>, provider |-> "", model |-> "",
           timestamp |-> <<2>>] : usage \in Usages}

WithId(shape, id) ==
    [id |-> id, role |-> shape.role, usage |-> shape.usage,
     provider |-> shape.provider, model |-> shape.model,
     timestamp |-> shape.timestamp]

\* the host puts one more message into event.messages
EventMessage(shape) ==
    /\ Len(transcript.messages) < MaxBatch
    /\ transcript' = [transcript EXCEPT !.messages =
                        Append(@, WithId(shape, Len(transcript.messages) + 1))]
    /\ lastOp' = OtherOp
    /\ UNCHANGED <<now, ledgerVars, hostVars, txIds, sessionFile, sessionsIndex>>

\* aggregateUsageFromMessages as trackUsage and trackChainUsage call it: with
\* event.model, its rates, and the timestamp of the last transaction
AggregateUsage(fallbackModelId, since) ==
    /\ transcript.messages # <<>>
    /\ \E result \in {aggregateUsageFromMessages(transcript.messages, fallbackModelId,
                            resolveModelCost(fallbackModelId), since)} :
        lastOp' = [name |-> "aggregate", fallback |-> fallbackModelId,
                   since |-> since, result |-> result]
    /\ UNCHANGED <<now, ledgerVars, hostVars, usageVars>>

NextAggregate ==
    \/ \E shape \in MessageShapes : EventMessage(shape)
    \/ \E fallbackModelId \in {SessionModel, LocalQwen, CloudQwen},
          since \in {<<>>, <<1>>} : AggregateUsage(fallbackModelId, since)

SpecAggregate == InitUsage /\ [][NextAggregate]_vars

----------------------------------------------------------------------------
(* SpecRollover: usage tracking of both modes while the clock runs on       *)
(* between the statements of a call                                        *)

\* the ticks that pass between the load of a call and its write
Elapsed == {0, 1}

\* trackChainUsage for a turn that ends with one new assistant message:
\* loadChainBudget reads the clock at `now`, recordProviderTransaction reads
\* it `elapsed` ticks later
TrackChainUsageAcross(usage, elapsed) ==
    /\ now + elapsed < (MaxDay + 1) * TicksPerDay
    /\ \E tracked \in
          {trackChainUsage(chainBudgetFile, chainConfig, SessionModel,
                           <<AssistantMessage(now, SessionModel, usage, <<now>>)>>,
                           resolveModelCost(SessionModel), Today, now + elapsed)} :
        /\ Len(tracked[1][1].transactions) <= MaxTurns
        /\ chainBudgetFile' = tracked[1]
        /\ lastOp' = [name |-> "trackChainUsage", ids |-> {now},
                      replayed |-> FALSE]
    /\ now' = now + elapsed
    /\ UNCHANGED <<chainConfig, failureFile, hostVars, usageVars>>

\* trackUsage of legacy mode: loadBudget reads the clock at `now`,
\* recordTransaction reads it `elapsed` ticks later
TrackUsageAcross(usage, elapsed) ==
    /\ now + elapsed < (MaxDay + 1) * TicksPerDay
    /\ \E tracked \in
          {trackUsage(budgetFile, SessionModel,
                      <<AssistantMessage(now, SessionModel, usage, <<now>>)>>,
                      resolveModelCost(SessionModel), DAILY_BUDGET_USD, Today,
                      now + elapsed)} :
        /\ Len(tracked[1].transactions) <= MaxTurns
        /\ budgetFile' = tracked
        /\ lastOp' = [name |-> "trackUsage", ids |-> {now}, replayed |-> FALSE]
    /\ now' = now + elapsed
    /\ UNCHANGED <<ledgerVars, hostConfig, switcherState, phase, pending, usageVars>>

NextRollover ==
    \/ Tick
    \/ \E usage \in Usages, elapsed \in Elapsed : TrackChainUsageAcross(usage, elapsed)
    \/ \E usage \in Usages, elapsed \in Elapsed : TrackUsageAcross(usage, elapsed)

SpecRollover == InitUsage /\ [][NextRollover]_vars

----------------------------------------------------------------------------
(* SpecSession: the host appends to the session log, the plugin truncates  *)

\* the settings CONTEXT_MAX_TOKENS and CONTEXT_KEEP_RECENT of the environment
ContextConfigs ==
    {[maxContextTokens |-> 120, keepRecentMessages |-> k] : k \in 0..MaxKeepRecent}

\* an id that no entry of the log carries
FreshId(entries) ==
    IF entries = <<>> THEN 1
    ELSE 1 + (CHOOSE m \in {entries[i].id : i \in 1..Len(entries)} :
                  \A i \in 1..Len(entries) : entries[i].id <= m)

\* the parent links an appended entry may carry: none, the first entry, or
\* the entry in front of it
ParentLinks(entries) ==
    {<<>>} \cup (IF entries = <<>> THEN {}
                ELSE {<<entries[1].id>>, <<entries[Len(entries)].id>>})

\* whether every entry points to the one in front of it, the first to none
Linear(entries) ==
    \A i \in 1..Len(entries) :
        entries[i].parentId = IF i = 1 THEN <<>> ELSE <<entries[i - 1].id>>

\* the host appends a line to the log
HostAppend(type, chars, parentId) ==
    /\ Len(sessionFile) < MaxEntries
    /\ parentId \in ParentLinks(sessionFile)
    /\ isStructuralEntry([type |-> type]) => chars = 0
    /\ ~isStructuralEntry([type |-> type]) => chars > 0
    /\ sessionFile' = Append(sessionFile,
                             [type |-> type, id |-> FreshId(sessionFile),
                              parentId |-> parentId, chars |-> chars])
    /\ lastOp' = OtherOp
    /\ UNCHANGED <<now, ledgerVars, hostVars, transcript, txIds, sessionsIndex>>

\* the host writes its sessions index, with or without the key of the session
HostIndexSession(index) ==
    /\ sessionsIndex # index
    /\ sessionsIndex' = index
    /\ lastOp' = OtherOp
    /\ UNCHANGED <<now, ledgerVars, hostVars, transcript, txIds, sessionFile>>

\* getActiveSessionPath and parseSessionEntries: the entries of the log
\* that the index names, <<>> when there is no such log
activeSessionEntries(index, file) == IF index = <<>> THEN <<>> ELSE file

\* a truncateActiveSession that writes back what it has read when there is
\* nothing to truncate
TruncateActiveSession_rewrites(config) ==
    /\ \E result \in {truncateSession(sessionFile, config, FreshId(sessionFile))} :
        /\ sessionFile' = IF result.kind = "entries" THEN result.entries
                          ELSE sessionFile
        /\ lastOp' = [name |-> "truncateSession",
                      truncated |-> result.kind = "entries",
                      threw |-> result.kind = "throws",
                      wrote |-> result.kind # "throws",
                      indexed |-> sessionsIndex # <<>>,
                      ceiling |-> config.maxContextTokens,
                      keepRecent |-> config.keepRecentMessages,
                      linearInput |-> Linear(sessionFile),
                      removed |-> IF result.kind = "entries"
                                  THEN Len(sessionFile) + 1 - Len(result.entries)
                                  ELSE 0]
    /\ UNCHANGED <<now, ledgerVars, hostVars, transcript, txIds, sessionsIndex>>

\* truncateActiveSession on the log that the sessions index names
TruncateActiveSession(config) ==
    /\ \E entries \in {activeSessionEntries(sessionsIndex, sessionFile)} :
       \E result \in {IF entries = <<>> THEN [kind |-> "null", entries |-> <<>>]
                      ELSE truncateSession(entries, config, FreshId(entries))} :
        /\ sessionFile' = IF result.kind = "entries" THEN result.entries
                          ELSE sessionFile
        /\ lastOp' = [name |-> "truncateSession",
                      truncated |-> result.kind = "entries",
                      threw |-> result.kind = "throws",
                      wrote |-> result.kind = "entries",
                      indexed |-> sessionsIndex # <<>>,
                      ceiling |-> config.maxContextTokens,
                      keepRecent |-> config.keepRecentMessages,
                      linearInput |-> Linear(sessionFile),
                      removed |-> IF result.kind = "entries"
                                  THEN Len(sessionFile) + 1 - Len(result.entries)
                                  ELSE 0]
    /\ UNCHANGED <<now, ledgerVars, hostVars, transcript, txIds, sessionsIndex>>

NextSession ==
    \/ \E type \in {"session", "message"}, chars \in {0, 200, 400},
          parentId \in ParentLinks(sessionFile) : HostAppend(type, chars, parentId)
    \/ \E index \in {<<>>, <<"session.jsonl">>} : HostIndexSession(index)
    \/ \E config \in ContextConfigs : TruncateActiveSession(config)

SpecSession == InitUsage /\ [][NextSession]_vars

----------------------------------------------------------------------------
(* Properties of the ledger *)

RECURSIVE SumTx(_, _)
SumTx(txs, providerId) ==
    IF txs = <<>> THEN 0
    ELSE (IF Head(txs).provider = providerId THEN Head(txs).cost_usd ELSE 0)
         + SumTx(Tail(txs), providerId)

RECURSIVE SumAllTx(_)
SumAllTx(txs) ==
    IF txs = <<>> THEN 0 ELSE Head(txs).cost_usd + SumAllTx(Tail(txs))

\* C1: conservation. In every ledger the spend row of each provider is the
\* sum of the costs of the transactions recorded for that provider, every
\* transaction's provider has a row, and getTotalSpent (the sum of the rows)
\* is therefore the sum of the costs of all transactions.
C1_Conservation ==
    chainBudgetFile # <<>> =>
        LET d == chainBudgetFile[1]
        IN  /\ \A p \in DOMAIN d.providers :
                  d.providers[p].spentUsd = SumTx(d.transactions, p)
            /\ \A i \in 1..Len(d.transactions) :
                  d.transactions[i].provider \in DOMAIN d.providers
            /\ getTotalSpent(d) = SumAllTx(d.transactions)

\* two transactions with a cost, recorded for one provider, and a third row
C1_Witness ==
    /\ chainBudgetFile # <<>>
    /\ Len(chainBudgetFile[1].transactions) = 2
    /\ chainBudgetFile[1].transactions[1].provider
         = chainBudgetFile[1].transactions[2].provider
    /\ chainBudgetFile[1].transactions[1].cost_usd > 0
    /\ chainBudgetFile[1].transactions[2].cost_usd > 0

LowestPriorityEnabled(config, providerId) ==
    \E i \in 1..Len(config) :
        /\ config[i].enabled
        /\ config[i].id = providerId
        /\ \A j \in 1..Len(config) :
              config[j].enabled => config[i].priority <= config[j].priority

C10_ExhaustionMonotone ==
    [][ (chainBudgetFile # <<>> /\ chainBudgetFile' # <<>>
         /\ chainBudgetFile'[1].date = chainBudgetFile[1].date) =>
            \A i \in 1..Len(chainConfig) :
                isProviderExhausted(chainBudgetFile[1], chainConfig[i].id,
                                    chainConfig[i].maxDailyUsd)
                => isProviderExhausted(chainBudgetFile'[1], chainConfig[i].id,
                                       chainConfig[i].maxDailyUsd) ]_vars

\* a provider exhausted by the first transaction of the day, and a later
\* ledger operation of the same day
C10_Witness ==
    /\ chainBudgetFile # <<>>
    /\ Len(chainBudgetFile[1].transactions) = 2
    /\ \E i \in 1..Len(chainConfig) :
          /\ chainConfig[i].maxDailyUsd > 0
          /\ chainBudgetFile[1].transactions[1].provider = chainConfig[i].id
          /\ chainBudgetFile[1].transactions[1].cost_usd >= chainConfig[i].maxDailyUsd
          /\ isProviderExhausted(chainBudgetFile[1], chainConfig[i].id,
                                 chainConfig[i].maxDailyUsd)

\* C11: a free provider is never exhausted. In every ledger, for every
\* configured provider whose maxDailyUsd is 0 and whatever spend its row
\* holds, isProviderExhausted is false, getExhaustedProviders leaves it out,
\* and getProviderStats reports remaining 0, percent 100 and not exhausted.
C11_FreeNeverExhausted ==
    chainBudgetFile # <<>> =>
        \A i \in 1..Len(chainConfig) :
            chainConfig[i].maxDailyUsd = 0 =>
                LET data == chainBudgetFile[1]
                    stats == getProviderStats(data, chainConfig[i])
                IN  /\ ~isProviderExhausted(data, chainConfig[i].id, 0)
                    /\ chainConfig[i].id \notin getExhaustedProviders(data, chainConfig)
                    /\ stats.remaining = 0
                    /\ stats.percent = 100
                    /\ ~stats.exhausted
                    /\ stats.spent = getProviderSpend(data, chainConfig[i].id)

\* spend has been recorded twice against the free provider
C11_Witness ==
    /\ chainBudgetFile # <<>>
    /\ \E i \in 1..Len(chainConfig) :
          /\ chainConfig[i].maxDailyUsd = 0
          /\ getProviderSpend(chainBudgetFile[1], chainConfig[i].id) = 2 * MaxCost

\* C12: no mixed-day state. In every ledger of either mode, every
\* transaction was recorded on the day the ledger is dated, also when the
\* day changes between the load of a turn and its write.
C12_NoMixedDay ==
    /\ chainBudgetFile # <<>> =>
          \A i \in 1..Len(chainBudgetFile[1].transactions) :
              todayString(chainBudgetFile[1].transactions[i].timestamp)
                  = chainBudgetFile[1].date
    /\ budgetFile # <<>> =>
          \A i \in 1..Len(budgetFile[1].transactions) :
              todayString(budgetFile[1].transactions[i].timestamp)
                  = budgetFile[1].date

\* the consecutive failures on record for a provider on a day: those of
\* the file when it is of that day and has the provider, 0 otherwise
FailuresOnRecord(file, providerId, today) ==
    IF file # <<>> /\ file[1].date = today /\ providerId \in DOMAIN file[1].providers
    THEN file[1].providers[providerId].consecutiveFailures
    ELSE 0

\* C23: the failure counters. recordFailure raises the count of its
\* provider by one (from 0 on a new day) and returns the new count,
\* recordSuccess sets it to 0, neither touches the count of another
\* provider, midnight takes every count back to 0, and
\* shouldSwitchProvider(p, t) is count >= t, false for a provider without
\* a record.
C23_ConsecutiveFailures ==
    [][ /\ lastOp'.name = "recordFailure" =>
            /\ lastOp'.returned
                 = FailuresOnRecord(failureFile, lastOp'.provider, Today) + 1
            /\ FailuresOnRecord(failureFile', lastOp'.provider, Today')
                 = lastOp'.returned
        /\ lastOp'.name = "recordSuccess" =>
            FailuresOnRecord(failureFile', lastOp'.provider, Today') = 0
        /\ lastOp'.name \in {"recordFailure", "recordSuccess"} =>
            \A q \in TrackedIds \ {lastOp'.provider} :
                FailuresOnRecord(failureFile', q, Today')
                  = FailuresOnRecord(failureFile, q, Today)
        /\ Today' # Today =>
            \A q \in TrackedIds : FailuresOnRecord(failureFile', q, Today') = 0
        /\ \A q \in TrackedIds, t \in 1..(MaxFailures + 1) :
            shouldSwitchProvider(failureFile', q, Today', t)
              <=> /\ failureFile' # <<>>
                  /\ failureFile'[1].date = Today'
                  /\ q \in DOMAIN failureFile'[1].providers
                  /\ FailuresOnRecord(failureFile', q, Today') >= t
      ]_vars

\* the third failure in a row of one provider, on the second day, while the
\* other provider stands at one failure
C23_Witness ==
    /\ lastOp.name = "recordFailure"
    /\ lastOp.returned = FAILURE_THRESHOLD
    /\ Today = 1
    /\ \E q \in TrackedIds \ {lastOp.provider} :
        FailuresOnRecord(failureFile, q, Today) = 1
    /\ shouldSwitchProvider(failureFile, lastOp.provider, Today, FAILURE_THRESHOLD)

----------------------------------------------------------------------------
(* Properties of the chain decision *)

\* the budget of provider is used up in the ledger
UsedUp(data, provider) ==
    /\ provider.maxDailyUsd > 0
    /\ provider.id \in DOMAIN data.providers
    /\ data.providers[provider.id].spentUsd >= provider.maxDailyUsd

\* the enabled providers behind `active` in priority that are not used up
Successors(data, config, active) ==
    {i \in 1..Len(config) :
        /\ config[i].enabled
        /\ config[i].priority > active.priority
        /\ ~UsedUp(data, config[i])}

\* C3: the decision of checkChainBudget. When a hook has taken a decision
\* for an active provider that is enabled: if the provider's budget is used
\* up, the decision is switch_provider to an enabled provider of the least
\* priority number greater than the active one's among those not used up, or
\* all_exhausted when there is none; if it is not used up (a free provider
\* never is), the decision is allow.
C3_ChainDecision ==
    (lastOp.name \in {"before_agent_start", "agent_end"} /\ lastOp.decision # <<>>) =>
        LET d == lastOp.decision[1]
            data == chainBudgetFile[1]
            active == getProviderById(chainConfig, d.currentProvider)
        IN  (active # <<>> /\ active[1].enabled) =>
                IF UsedUp(data, active[1])
                THEN IF Successors(data, chainConfig, active[1]) = {}
                     THEN d.action = "all_exhausted" /\ d.nextProvider = <<>>
                     ELSE /\ d.action = "switch_provider"
                          /\ \E i \in Successors(data, chainConfig, active[1]) :
                                /\ d.nextProvider = <<chainConfig[i].id>>
                                /\ \A j \in Successors(data, chainConfig, active[1]) :
                                      chainConfig[i].priority <= chainConfig[j].priority
                ELSE d.action = "allow" /\ d.nextProvider = <<>>

\* the cascade: A, B and C were used up in turn, with a switch after each,
\* and the decision on the free provider is allow
C3_Witness ==
    /\ lastOp.name = "before_agent_start"
    /\ lastOp.decision[1].action = "allow"
    /\ lastOp.decision[1].currentProvider = "ollama"
    /\ chainBudgetFile # <<>>
    /\ Len(chainBudgetFile[1].switchHistory) = 3
    /\ chainBudgetFile[1].switchHistory[1].from = "anthropic"
    /\ chainBudgetFile[1].switchHistory[1].to = "moonshot"
    /\ chainBudgetFile[1].switchHistory[2].to = "deepseek"
    /\ chainBudgetFile[1].switchHistory[3].to = "ollama"
    /\ \A i \in 1..Len(chainConfig) :
          chainConfig[i].maxDailyUsd > 0 => UsedUp(chainBudgetFile[1], chainConfig[i])

\* C4: failure-triggered switching. The decision taken at the end of a turn
\* is switch_provider whenever the failure counter of the active provider
\* has reached the threshold.
C4_FailureSwitch ==
    (/\ lastOp.name = "agent_end"
     /\ lastOp.decision # <<>>
     /\ shouldSwitchProvider(failureFile, lastOp.decision[1].currentProvider, Today,
                             FAILURE_THRESHOLD))
    => lastOp.decision[1].action = "switch_provider"

\* C6: day boundary at load. After a load of the plugin that found the
\* ledger of another day, the host config's primary model is the model of
\* the first enabled provider, that provider is the ledger's active one, and
\* the restart of the host was invoked.
C6_LoadRestoresFirst ==
    (lastOp.name = "load" /\ lastOp.stale /\ getEnabledProviders(chainConfig) # <<>>) =>
        LET first == getEnabledProviders(chainConfig)[1]
        IN  /\ hostConfig.primary
                 = resolveFullModelId(first.id, getModelForTask(first, "general"))
            /\ chainBudgetFile # <<>>
            /\ chainBudgetFile[1].activeProvider = first.id
            /\ lastOp.restarts >= 1

C29_NoInjectionWhenLarge ==
    (lastOp.name = "before_agent_start"
     /\ lastOp.estimatedTokens > CONTEXT_INJECTION_THRESHOLD) =>
        lastOp.prependContext = <<>>

\* C28: the frame of a host-config write. A switch or a restore that
\* writes the host config sets agents.defaults.model.primary and adds the
\* entry of that model to agents.defaults.models when it is absent; the
\* other entries, their aliases and everything else in the file stay as
\* they were. (The write of the alias table at registration is not a switch.)
C28_ConfigFrame ==
    [][ ( /\ hostConfig' # hostConfig
          /\ ~(lastOp'.name = "load" /\ "wasReset" \in DOMAIN lastOp'
                 /\ ~lastOp'.wasReset) ) =>
          hostConfig' = [hostConfig EXCEPT !.primary = hostConfig'.primary,
                                           !.models = @ \cup {hostConfig'.primary}]
      ]_vars

\* a switch has written a model into a config that carries the alias table
C28_Witness ==
    /\ lastOp.name = "switch_done"
    /\ lastOp.wrote
    /\ hostConfig.aliased
    /\ hostConfig.primary # DefaultOptimizationModel
    /\ hostConfig.primary \in hostConfig.models
    /\ hostConfig.rest = OtherKeys

\* the model a local switch selects for its task, and the one it falls back to
LocalTaskModel(op) ==
    IF op.name = "switchToLocalModel"
    THEN <<"ollama", getLocalModels[op.taskType]>>
    ELSE resolveFullModelId("ollama",
             getModelForTask(getProviderById(chainConfig, "ollama")[1], op.taskType))

LocalFallbackModel(op) ==
    IF op.name = "switchToLocalModel"
    THEN <<"ollama", getLocalModels.general>>
    ELSE resolveFullModelId("ollama",
             getProviderById(chainConfig, "ollama")[1].models.default)

\* the models the answers of the Ollama server reported present: the task
\* model, or, asked only when that one is missing, the fallback model
ReportedPresent(op) ==
    IF ~op.probe.ollamaUp THEN {}
    ELSE IF op.probe.targetAvailable THEN {LocalTaskModel(op)}
    ELSE IF op.probe.generalAvailable THEN {LocalFallbackModel(op)}
    ELSE {}

IsLocalSwitch(op) ==
    /\ op.name \in {"switchToProvider", "switchToLocalModel"}
    /\ op.providerId = "ollama"

\* C30: a switch to the local provider writes a model that is there. When
\* switchToLocalModel or switchToProvider("ollama") writes the host config,
\* the primary model it writes is one the server reported present: the
\* general/default model when the task model is missing; when both are
\* missing the switch returns false and the host config stays as it was.
C30_WritesAvailableModel ==
    [][ IsLocalSwitch(lastOp') =>
          IF lastOp'.ret
          THEN hostConfig'.primary \in ReportedPresent(lastOp')
          ELSE hostConfig' = hostConfig ]_vars

\* the same for the legacy switch alone
LegacyWritesAvailableModel ==
    [][ (IsLocalSwitch(lastOp') /\ lastOp'.name = "switchToLocalModel") =>
          IF lastOp'.ret
          THEN hostConfig'.primary \in ReportedPresent(lastOp')
          ELSE hostConfig' = hostConfig ]_vars

\* the legacy switch falls back: the coding model is missing, the general
\* model is there and is the one written
LegacyFallbackReached ==
    /\ lastOp.name = "switchToLocalModel"
    /\ lastOp.taskType = "coding"
    /\ lastOp.ret
    /\ ~lastOp.probe.targetAvailable
    /\ hostConfig.primary = <<"ollama", "qwen3:8b">>

----------------------------------------------------------------------------
(* Properties of legacy mode *)

\* C7: the load of the plugin in legacy mode. With a local switcher state and
\* a remaining budget above zero for the current day, the load writes the
\* original model back as the host's primary model, deletes the switcher
\* state and invokes the restart once; in every other case (the budget still
\* exhausted, or no local state) it changes neither the host config nor the
\* switcher state nor, in the exhausted case, the budget file, and invokes
\* no restart. A load that directly follows a load that invoked the restart
\* invokes none.
C7_LegacyLoad ==
    [][ lastOp'.name = "load" =>
          /\ (lastOp.name = "load" /\ lastOp.restarts = 1) => lastOp'.restarts = 0
          /\ IF switcherState # <<>> /\ switcherState[1].mode = "local"
             THEN IF checkBudget(budgetFile, DAILY_BUDGET_USD, Today, "", <<>>)[2]
                         .remaining_usd > 0
                  THEN /\ hostConfig'.primary = switcherState[1].originalModel
                       /\ switcherState' = <<>>
                       /\ lastOp'.restarts = 1
                  ELSE /\ hostConfig' = hostConfig
                       /\ switcherState' = switcherState
                       /\ budgetFile' = budgetFile
                       /\ lastOp'.restarts = 0
             ELSE /\ hostConfig' = hostConfig
                  /\ switcherState' = switcherState
                  /\ budgetFile' = budgetFile
                  /\ lastOp'.restarts = 0 ]_vars

\* a load has restored the cloud model that an earlier switch had replaced
C7_Witness ==
    /\ lastOp.name = "load"
    /\ lastOp.restarts = 1
    /\ switcherState = <<>>
    /\ hostConfig.primary = <<"anthropic", "claude-sonnet-4">>
    /\ <<"ollama", "qwen3:8b">> \in hostConfig.models

\* C8: switchToLocalModel under a local switcher state. An agent_end hook
\* that calls switchToLocalModel while the switcher state is local gets
\* false at once: the call writes neither the host config nor the switcher
\* state, suspends at no probe, and the hook invokes no restart but the one
\* that follows a truncation.
C8_SwitchWhileLocal ==
    [][ (/\ lastOp'.name = "agent_end"
         /\ lastOp'.switch # "none"
         /\ switcherState # <<>>
         /\ switcherState[1].mode = "local")
        => /\ lastOp'.switch = "skipped"
           /\ hostConfig' = hostConfig
           /\ switcherState' = switcherState
           /\ pending' \in {pending, <<>>}
           /\ lastOp'.restarts = (IF lastOp'.truncated THEN 1 ELSE 0) ]_vars

\* an agent_end hook over budget, under a local switcher state, has called
\* switchToLocalModel
C8_Witness ==
    /\ lastOp.name = "agent_end"
    /\ lastOp.switch = "skipped"
    /\ lastOp.decision[1].action = "force_local"
    /\ switcherState # <<>>
    /\ switcherState[1].mode = "local"

\* C14: the original model. A switch to the local model that writes the host
\* config saves a local switcher state whose originalModel is the primary
\* model the host config had before that write, and leaves the local model
\* as the primary one; a load that restores the cloud model sets the primary
\* model to the originalModel of the state it found and deletes the state.
C14_OriginalModel ==
    [][ /\ (lastOp'.name = "switch_done" /\ lastOp'.wrote) =>
              /\ switcherState' # <<>>
              /\ switcherState'[1].mode = "local"
              /\ switcherState'[1].originalModel = hostConfig.primary
              /\ hostConfig'.primary = switcherState'[1].switchedModelId
              /\ hostConfig'.primary[1] = "ollama"
        /\ (lastOp'.name = "load" /\ lastOp'.restarts = 1) =>
              /\ switcherState # <<>>
              /\ hostConfig'.primary = switcherState[1].originalModel
              /\ switcherState' = <<>>
      ]_vars

\* on a new day, a load has found the local state of yesterday's switch and
\* has put the cloud model back that the switch had replaced
C14_Witness ==
    /\ lastOp.name = "load"
    /\ lastOp.restarts = 1
    /\ switcherState = <<>>
    /\ hostConfig.primary = <<"anthropic", "claude-sonnet-4">>
    /\ \E m \in hostConfig.models : m[1] = "ollama"
    /\ budgetFile # <<>>
    /\ budgetFile[1].date = Today
    /\ budgetFile[1].transactions = <<>>

\* C15: a switch to the local provider is aborted on a failed probe. When a
\* suspended switch resumes with the Ollama server not answering, or with
\* neither the task model nor the default model present, it returns false:
\* host config, switcher state and ledger (with its activeProvider) stay as
\* they were, the host process goes on, and no restart is invoked.
C15_AbortedSwitch ==
    [][ (lastOp'.name = "switch_done" /\ lastOp'.aborts) =>
          /\ ~lastOp'.wrote
          /\ hostConfig' = hostConfig
          /\ switcherState' = switcherState
          /\ chainBudgetFile' = chainBudgetFile
          /\ phase' = phase
          /\ lastOp'.restarts = 0
      ]_vars

\* the last paid provider is used up, the decision was to switch to ollama,
\* and the switch has been aborted: the ledger's active provider still is
\* the exhausted one
C15_Witness ==
    /\ lastOp.name = "switch_done"
    /\ lastOp.aborts
    /\ chainBudgetFile # <<>>
    /\ chainBudgetFile[1].activeProvider # "ollama"
    /\ isProviderExhausted(chainBudgetFile[1], chainBudgetFile[1].activeProvider,
                           getProviderById(chainConfig,
                               chainBudgetFile[1].activeProvider)[1].maxDailyUsd)
    /\ hostConfig.primary[1] # "ollama"

\* C16: no exception of a hook reaches the host. Whenever a run of
\* before_agent_start or of agent_end fails inside, be it on a state file
\* that cannot be parsed, the handler returns undefined and throws nothing.
C16_NoEscape ==
    (lastOp.name = "failed" /\ lastOp.hook \in {"before_agent_start", "agent_end"})
        => ~lastOp.escaped

\* C17: a missing or corrupt state file is fresh state. For each of the four
\* state files, when it is missing or holds text that does not parse, its
\* load does not throw and returns the fresh default document (null for
\* the switcher state).
C17_FreshOnDamage ==
    /\ (budgetFile = <<>> \/ budgetFile = <<Torn>>) =>
          /\ ~loadBudgetThrows(budgetFile)
          /\ loadBudget(budgetFile, DAILY_BUDGET_USD, Today)[2]
                = freshBudget(DAILY_BUDGET_USD, Today)
    /\ (chainBudgetFile = <<>> \/ chainBudgetFile = <<Torn>>) =>
          /\ ~loadChainBudgetThrows(chainBudgetFile)
          /\ loadChainBudget(chainBudgetFile, chainConfig, Today)[2]
                = freshChainBudget(chainConfig, Today)
    /\ (failureFile = <<>> \/ failureFile = <<Torn>>) =>
          loadFailureData(failureFile, Today) = [date |-> Today, providers |-> EmptyMap]
    /\ (switcherState = <<>> \/ switcherState = <<Torn>>) =>
          loadSwitcherState(switcherState) = <<>>

\* C18: writes are atomic. No state file ever holds a partial document,
\* not even after the process ended in the middle of a write.
C18_NeverPartial ==
    /\ budgetFile # <<Torn>>
    /\ chainBudgetFile # <<Torn>>
    /\ failureFile # <<Torn>>
    /\ switcherState # <<Torn>>

\* C9: a switch in flight is not initiated again. A switch that resumes
\* after an overlapping switch of the same host process has written the host
\* config writes nothing and invokes no restart.
C9_NoSecondSwitch ==
    (lastOp.name = "switch_done" /\ lastOp.second) =>
        (~lastOp.wrote /\ lastOp.restarts = 0)

\* C27: the thresholds of the legacy gate. With remaining = daily budget
\* minus the sum of the day's transactions, checkBudget answers force_local
\* exactly when remaining <= 0, prefer_cheaper exactly when remaining is
\* positive and below 20% of the daily budget, and allow otherwise.
C27_LegacyThresholds ==
    lastOp.name = "checkBudget" =>
        LET remaining == DAILY_BUDGET_USD - SumCosts(budgetFile[1].transactions)
            action == lastOp.decision.action
        IN  /\ lastOp.decision.remaining_usd = remaining
            /\ action = "force_local" <=> remaining <= 0
            /\ action = "prefer_cheaper"
                  <=> (remaining > 0 /\ 100 * remaining < 20 * DAILY_BUDGET_USD)
            /\ action = "allow" <=> 100 * remaining >= 20 * DAILY_BUDGET_USD

----------------------------------------------------------------------------
(* Properties of the truncation *)

\* C19: the truncated log is a linear chain. After every truncation the
\* first entry of the rewritten log has no parent and every other entry has
\* the id of the entry in front of it as its parent, the inserted compaction
\* entry included, whatever the parent links of the log were.
C19_LinearChain ==
    [][ (lastOp'.name = "truncateSession" /\ lastOp'.truncated) =>
          /\ sessionFile'[1].parentId = <<>>
          /\ \A i \in 2..Len(sessionFile') :
                sessionFile'[i].parentId = <<sessionFile'[i - 1].id>>
      ]_vars

\* a log whose links were not linear has been truncated, and the compaction
\* entry stands behind a structural entry
C19_Witness ==
    /\ lastOp.name = "truncateSession"
    /\ lastOp.truncated
    /\ ~lastOp.linearInput
    /\ Len(sessionFile) >= 3
    /\ sessionFile[1].type = "session"
    /\ sessionFile[2].type = "compaction"
    /\ sessionFile[2].parentId = <<sessionFile[1].id>>

\* an entry without its parent link
Unlinked(entry) == [type |-> entry.type, id |-> entry.id, chars |-> entry.chars]

\* the number of content entries of the log behind index i
ContentBehind(entries, i) ==
    Cardinality({j \in (i + 1)..Len(entries) : ~isStructuralEntry(entries[j])})

\* the entries that a truncation has to keep: the structural ones and the
\* keepRecent newest content entries, in their order, without their links
RECURSIVE Survivors(_, _, _)
Survivors(entries, keepRecent, i) ==
    IF i > Len(entries) THEN <<>>
    ELSE IF isStructuralEntry(entries[i]) \/ ContentBehind(entries, i) < keepRecent
         THEN <<Unlinked(entries[i])>> \o Survivors(entries, keepRecent, i + 1)
         ELSE Survivors(entries, keepRecent, i + 1)

\* C20: what a truncation keeps. The rewritten log is the old one with its
\* oldest content entries taken out, so that every structural entry and
\* exactly the keepRecent newest content entries are left in their order,
\* plus one new compaction entry, which stands directly in front of the
\* first content entry that is left (at the front of the log when none is).
C20_KeepsRecent ==
    [][ (lastOp'.name = "truncateSession" /\ lastOp'.truncated) =>
          LET old == sessionFile
              new == sessionFile'
              k == lastOp'.keepRecent
              added == {p \in 1..Len(new) :
                          new[p].id \notin {old[i].id : i \in 1..Len(old)}}
          IN  /\ Cardinality(added) = 1
              /\ \A p \in added :
                    /\ new[p].type = "compaction"
                    /\ [i \in 1..(Len(new) - 1) |->
                          Unlinked(IF i < p THEN new[i] ELSE new[i + 1])]
                          = Survivors(old, k, 1)
                    /\ \A j \in 1..(p - 1) : isStructuralEntry(new[j])
                    /\ k > 0 => (p < Len(new) /\ ~isStructuralEntry(new[p + 1]))
                    /\ k = 0 => p = 1
              /\ Cardinality({j \in 1..Len(new) : ~isStructuralEntry(new[j])}) = k
              /\ lastOp'.removed >= 1
      ]_vars

\* two old messages were taken out of a log that starts with a structural
\* entry; that entry, the compaction entry and the newest message are left
C20_Witness ==
    /\ lastOp.name = "truncateSession"
    /\ lastOp.truncated
    /\ lastOp.keepRecent = 1
    /\ lastOp.removed = 2
    /\ Len(sessionFile) = 3
    /\ sessionFile[1].type = "session"
    /\ sessionFile[2].type = "compaction"
    /\ sessionFile[3].type = "message"

\* C21: a truncated log is under the ceiling. After every truncation the
\* token estimate of the rewritten log is below maxContextTokens.
C21_UnderCeiling ==
    [][ (lastOp'.name = "truncateSession" /\ lastOp'.truncated) =>
          estimateTotalTokens(sessionFile') < lastOp'.ceiling
      ]_vars

\* C22: nothing to truncate, nothing written. When the sessions index does
\* not name the log, or the log is missing or empty, or its estimate is
\* within the ceiling, or it has at most keepRecent content entries, then
\* truncateActiveSession reports truncated = false, does not write and
\* leaves the log as it is.
C22_NotTruncated ==
    [][ ( /\ lastOp'.name = "truncateSession"
          /\ \/ sessionsIndex = <<>>
             \/ sessionFile = <<>>
             \/ estimateTotalTokens(sessionFile) <= lastOp'.ceiling
             \/ Len(contentIndices(sessionFile, 1)) <= lastOp'.keepRecent ) =>
          /\ ~lastOp'.truncated
          /\ ~lastOp'.threw
          /\ ~lastOp'.wrote
          /\ sessionFile' = sessionFile
      ]_vars

\* a log over the ceiling with no more content entries than are to be kept
\* was left alone
C22_Witness ==
    /\ lastOp.name = "truncateSession"
    /\ lastOp.indexed
    /\ ~lastOp.truncated
    /\ ~lastOp.wrote
    /\ estimateTotalTokens(sessionFile) > lastOp.ceiling
    /\ Len(contentIndices(sessionFile, 1)) = lastOp.keepRecent
    /\ lastOp.keepRecent > 0

----------------------------------------------------------------------------
(* Properties of usage tracking *)

\* the messages of the event that carry token counts of an assistant
HasUsage(msg) ==
    /\ msg.role = "assistant"
    /\ msg.usage # <<>>
    /\ msg.usage[1].input # <<>>
    /\ msg.usage[1].output # <<>>

\* the messages that a call with the cutoff `since` has to count
NewSince(messages, since) ==
    {i \in 1..Len(messages) :
        /\ HasUsage(messages[i])
        /\ since # <<>> =>
              (messages[i].timestamp # <<>> /\ messages[i].timestamp[1] > since[1])}

\* the sum of value[i] over the indices
RECURSIVE SumOver(_, _)
SumOver(indices, value) ==
    IF indices = {} THEN 0
    ELSE LET i == CHOOSE j \in indices : TRUE
         IN  value[i] + SumOver(indices \ {i}, value)

\* C24: the cutoff. With a cutoff T the call counts exactly the assistant
\* messages with token counts whose timestamp is greater than T, so none
\* stamped T or earlier and none without a timestamp; without a cutoff it
\* counts every assistant message with token counts. The result is null
\* exactly when nothing is counted, and its token sums are those of the
\* counted messages.
C24_SinceCutoff ==
    lastOp.name = "aggregate" =>
        LET counted == NewSince(transcript.messages, lastOp.since)
        IN  /\ lastOp.result = <<>> <=> counted = {}
            /\ lastOp.result # <<>> =>
                /\ lastOp.result[1].ids = {transcript.messages[i].id : i \in counted}
                /\ lastOp.result[1].input_tokens
                     = SumOver(counted, [i \in counted |->
                                  transcript.messages[i].usage[1].input[1]])
                /\ lastOp.result[1].output_tokens
                     = SumOver(counted, [i \in counted |->
                                  transcript.messages[i].usage[1].output[1]])

\* with the cutoff 1, of a message stamped 1 and a message stamped 2 only
\* the second one was counted
C24_Witness ==
    /\ lastOp.name = "aggregate"
    /\ lastOp.since = <<1>>
    /\ Len(transcript.messages) = 2
    /\ HasUsage(transcript.messages[1])
    /\ transcript.messages[1].timestamp = <<1>>
    /\ HasUsage(transcript.messages[2])
    /\ transcript.messages[2].timestamp = <<2>>
    /\ lastOp.result # <<>>
    /\ lastOp.result[1].ids = {2}

\* what a counted message adds to the cost when that is decided from the
\* message alone: nothing for a local provider or a model of a local
\* family, else the reported cost.total when positive, else the token
\* counts priced with the rates
CostByMessage(msg, rates) ==
    IF msg.provider = "ollama" \/ (msg.model # "" /\ isLocalModel(<<"", msg.model>>))
    THEN 0
    ELSE IF msg.usage[1].cost # <<>> /\ msg.usage[1].cost[1] > 0
    THEN msg.usage[1].cost[1]
    ELSE (msg.usage[1].input[1] * rates.input) \div 1000
         + (msg.usage[1].output[1] * rates.output) \div 1000

\* C25: the cost is decided per message. The cost of an aggregation is the
\* sum over the counted messages of: 0 for a message of a local provider or
\* of a local-pattern model, whatever price it reports; else its
\* cost.total when that is positive; else (in/1000)*rate.in +
\* (out/1000)*rate.out.
C25_PerMessageCost ==
    (lastOp.name = "aggregate" /\ lastOp.result # <<>>) =>
        LET counted == NewSince(transcript.messages, lastOp.since)
        IN  lastOp.result[1].cost
              = SumOver(counted, [i \in counted |->
                    CostByMessage(transcript.messages[i],
                                  resolveModelCost(lastOp.fallback))])

\* the prefixes of model ids that name a cloud gateway
CloudPrefixes == {"openrouter", "minimax", "bytedance-ark"}

\* C26: a gateway prefix makes a model a cloud model. A model id that
\* starts with openrouter/, minimax/ or bytedance-ark/ is not detected as
\* local even when its name holds a local family name, and a counted
\* message of such a model that reports a price adds that price to the
\* cost of the aggregation.
C26_CloudPrefixCharged ==
    lastOp.name = "aggregate" =>
        /\ lastOp.fallback[1] \in CloudPrefixes => ~isLocalModel(lastOp.fallback)
        /\ \A i \in NewSince(transcript.messages, lastOp.since) :
            LET msg == transcript.messages[i]
            IN  ( /\ msg.provider \in CloudPrefixes
                  /\ msg.usage[1].cost # <<>>
                  /\ lastOp.fallback[1] \in CloudPrefixes ) =>
                    /\ lastOp.result # <<>>
                    /\ lastOp.result[1].cost >= msg.usage[1].cost[1]

\* the number of transactions of the ledger that aggregated message id
TimesCounted(id) == Cardinality({i \in 1..Len(txIds) : id \in txIds[i]})

----------------------------------------------------------------------------
(* Properties of the provider chain *)

\* the provider ids in lexicographic order
IdsInOrder ==
    <<"anthropic", "bytedance-ark", "deepseek", "moonshot", "ollama", "openrouter-glm">>

IdRank(id) == CHOOSE i \in 1..Len(IdsInOrder) : IdsInOrder[i] = id

\* C31: the enabled providers in order. getEnabledProviders returns exactly
\* the providers of the chain with enabled = true, by ascending priority
\* and, among providers of equal priority, by ascending id, whatever the
\* order of their declaration.
C31_EnabledInOrder ==
    lastOp.name = "getEnabledProviders" =>
        /\ Len(lastOp.returned)
              = Cardinality({i \in 1..Len(chainConfig) : chainConfig[i].enabled})
        /\ {lastOp.returned[i] : i \in 1..Len(lastOp.returned)}
              = {chainConfig[i] : i \in {j \in 1..Len(chainConfig) : chainConfig[j].enabled}}
        /\ \A i, j \in 1..Len(lastOp.returned) :
              i < j =>
                \/ lastOp.returned[i].priority < lastOp.returned[j].priority
                \/ /\ lastOp.returned[i].priority = lastOp.returned[j].priority
                   /\ IdRank(lastOp.returned[i].id) < IdRank(lastOp.returned[j].id)

\* the same without the order among providers of equal priority
EnabledByPriority ==
    lastOp.name = "getEnabledProviders" =>
        /\ {lastOp.returned[i] : i \in 1..Len(lastOp.returned)}
              = {chainConfig[i] : i \in {j \in 1..Len(chainConfig) : chainConfig[j].enabled}}
        /\ \A i, j \in 1..Len(lastOp.returned) :
              i < j => lastOp.returned[i].priority <= lastOp.returned[j].priority

\* the documented name of a provider's variable: the id in upper case with
\* "_" for every "-"
DocumentedName(id, suffix) ==
    [i \in 1..Len(WordsOf(id)) |->
        IF WordsOf(id)[i] = "-" THEN "_" ELSE UpperWord(WordsOf(id)[i])]
    \o <<"_", suffix>>

\* what the documented variables of provider p say in the environment env
OverriddenBudget(p, env) ==
    LET value == EnvLookup(env, DocumentedName(p.id, "DAILY_BUDGET_USD"))
    IN  IF value # <<>> /\ parseFloat(value[1]) # <<>>
        THEN parseFloat(value[1])[1] ELSE p.maxDailyUsd

OverriddenEnabled(p, env) ==
    LET value == EnvLookup(env, DocumentedName(p.id, "ENABLED"))
    IN  IF value # <<>> THEN toLowerCase(value[1]) = "true" ELSE p.enabled

\* C32: the environment overrides. For every provider, with or without a
\* hyphen in its id, a set <ID>_DAILY_BUDGET_USD that parses as a number
\* replaces maxDailyUsd (one that does not parse is ignored) and a set
\* <ID>_ENABLED replaces enabled, <ID> being the id in upper case with
\* underscores for hyphens.
C32_EnvOverrides ==
    lastOp.name = "applyEnvOverrides" =>
        \A i \in 1..Len(chainConfig) :
            /\ EnvLookup(lastOp.env, DocumentedName(chainConfig[i].id, "DAILY_BUDGET_USD")) # <<>>
                  => lastOp.returned[i].maxDailyUsd
                        = OverriddenBudget(chainConfig[i], lastOp.env)
            /\ EnvLookup(lastOp.env, DocumentedName(chainConfig[i].id, "ENABLED")) # <<>>
                  => lastOp.returned[i].enabled
                        = OverriddenEnabled(chainConfig[i], lastOp.env)

\* the same for the providers whose id holds no hyphen
EnvOverridesPlainIds ==
    lastOp.name = "applyEnvOverrides" =>
        \A i \in 1..Len(chainConfig) :
            Len(WordsOf(chainConfig[i].id)) = 1 =>
                /\ lastOp.returned[i].maxDailyUsd
                      = OverriddenBudget(chainConfig[i], lastOp.env)
                /\ lastOp.returned[i].enabled
                      = OverriddenEnabled(chainConfig[i], lastOp.env)

\* what a provider has spent on the day of the clock reading t
SpentOn(file, providerId, t) ==
    getProviderSpend(loadChainBudget(file, chainConfig, todayString(t))[2], providerId)

\* C33: a turn is charged to the provider that served it. For every
\* provider of the chain, built-in prefix or not, the cost of a turn whose
\* assistant message carries that provider is added to that provider's
\* spend and the spend of every other provider stays as it was.
C33_ChargedToServer ==
    [][ (lastOp'.name = "served" /\ lastOp'.result # <<>>) =>
          \A p \in ConfigIds(chainConfig) :
              SpentOn(chainBudgetFile', p, now')
                 = SpentOn(chainBudgetFile, p, now')
                   + (IF p = lastOp'.providerId
                      THEN lastOp'.result[1].aggregated.cost ELSE 0) ]_vars

\* the same for the providers whose id is a built-in prefix
BuiltInChargedToServer ==
    [][ (lastOp'.name = "served" /\ lastOp'.result # <<>>
         /\ lastOp'.providerId \in PROVIDER_PREFIXES) =>
          \A p \in ConfigIds(chainConfig) :
              SpentOn(chainBudgetFile', p, now')
                 = SpentOn(chainBudgetFile, p, now')
                   + (IF p = lastOp'.providerId
                      THEN lastOp'.result[1].aggregated.cost ELSE 0) ]_vars

\* C34: ledger and host config agree. In chain mode, while no switch is
\* suspended, the activeProvider of the ledger is the provider of the host
\* config's primary model: after a switch that wrote, after one that
\* aborted, and after a daily reset at load or inside a hook.
C34_ActiveMatchesPrimary ==
    (pending = <<>> /\ chainBudgetFile # <<>>) =>
        chainBudgetFile[1].activeProvider = hostConfig.primary[1]

\* the active provider of the ledger cannot serve: it is missing from the
\* chain, disabled, or has spent its budget of the day
ActiveUnusable(file) ==
    /\ file # <<>>
    /\ file[1].date = Today
    /\ LET provider == getProviderById(chainConfig, file[1].activeProvider)
       IN  \/ provider = <<>>
           \/ ~provider[1].enabled
           \/ isProviderExhausted(file[1], provider[1].id, provider[1].maxDailyUsd)

\* C35: the decision does not wait for usage. When a turn ends with the
\* active provider exhausted, disabled or missing, the agent_end hook of
\* chain mode evaluates checkChainBudget and gets switch_provider or
\* all_exhausted, whether the turn brought new usage or not.
C35_DecidesWithoutUsage ==
    [][ (lastOp'.name = "agent_end" /\ ActiveUnusable(chainBudgetFile')) =>
          /\ lastOp'.decision # <<>>
          /\ lastOp'.decision[1].action \in {"switch_provider", "all_exhausted"} ]_vars

\* the same for the turns that brought new usage
DecidesWithUsage ==
    [][ (lastOp'.name = "agent_end" /\ ActiveUnusable(chainBudgetFile')
         /\ chainBudgetFile' # chainBudgetFile) =>
          /\ lastOp'.decision # <<>>
          /\ lastOp'.decision[1].action \in {"switch_provider", "all_exhausted"} ]_vars

\* C36: nothing is charged twice across a reset. When trackChainUsage
\* finds the ledger of an earlier day and starts the ledger of today, the
\* messages that a transaction of the earlier ledger had counted are in no
\* transaction of the new one, also when the event delivers them again.
C36_NoRechargeAfterReset ==
    [][ ( /\ lastOp'.name = "trackChainUsage"
          /\ chainBudgetFile # <<>>
          /\ chainBudgetFile[1].date # Today ) =>
          \A i \in 1..Len(txIds'), j \in 1..Len(txIds) : txIds'[i] \cap txIds[j] = {}
      ]_vars

\* the same for the events that deliver new messages only
NoRechargeOfNewMessages ==
    [][ ( /\ lastOp'.name = "trackChainUsage"
          /\ ~lastOp'.replayed
          /\ chainBudgetFile # <<>>
          /\ chainBudgetFile[1].date # Today ) =>
          \A i \in 1..Len(txIds'), j \in 1..Len(txIds) : txIds'[i] \cap txIds[j] = {}
      ]_vars

\* the enabled providers of the chain that have not spent their budget
UsableProviders(file) ==
    {i \in 1..Len(chainConfig) :
        /\ chainConfig[i].enabled
        /\ ~isProviderExhausted(file[1], chainConfig[i].id, chainConfig[i].maxDailyUsd)}

DecidedAllExhausted ==
    /\ lastOp.name \in {"before_agent_start", "agent_end"}
    /\ lastOp.decision # <<>>
    /\ lastOp.decision[1].action = "all_exhausted"

\* C37: all_exhausted means that nothing is left. When checkChainBudget
\* answers all_exhausted, no enabled provider of the chain has budget left
\* (or is free), whatever the active provider, the priorities, equal ones
\* included, and the spend of each provider.
C37_AllExhaustedIsFinal ==
    DecidedAllExhausted => UsableProviders(chainBudgetFile) = {}

\* the same on the chains whose priorities all differ
AllExhaustedDistinctPriorities ==
    (DecidedAllExhausted /\ chainConfig = SubSeq(TestChain, 1, 3)) =>
        UsableProviders(chainBudgetFile) = {}

AllExhaustedReached ==
    DecidedAllExhausted /\ chainConfig = SubSeq(TestChain, 1, 3)

PriorityOf(providerId) == getProviderById(chainConfig, providerId)[1].priority

\* the ledger as a call of this step loads it: fresh when the stored one
\* is missing or of an earlier day
LedgerBefore == loadChainBudget(chainBudgetFile, chainConfig, Today')[2]

\* a step that records a provider switch in the ledger of the day
RecordsSwitch ==
    /\ chainBudgetFile' # <<>>
    /\ Len(chainBudgetFile'[1].switchHistory) = Len(LedgerBefore.switchHistory) + 1

\* a step in which the restart that a provider switch invoked ends the host
SwitchRestartsHost ==
    /\ phase # <<>>
    /\ phase' = <<>>
    /\ \/ lastOp'.name = "switch_done" /\ lastOp'.wrote
       \/ /\ lastOp'.name = "agent_end"
          /\ lastOp'.decision # <<>>
          /\ lastOp'.decision[1].action = "switch_provider"
          /\ hostConfig' # hostConfig

C39_OneRestartPerEvent ==
    lastOp.name = "agent_end" => lastOp.restarts <= 1

\* an agent_end event that initiates no switch invokes the restart command at
\* most once, and an event that neither switches nor truncates never does
RestartsWithoutSwitch ==
    (/\ lastOp.name = "agent_end"
     /\ \/ lastOp.decision = <<>>
        \/ lastOp.decision[1].action # "switch_provider") =>
        lastOp.restarts <= 1

\* an agent_end event that decided a switch and invoked the restart command
SwitchingEventRestarted ==
    /\ lastOp.name = "agent_end"
    /\ lastOp.decision # <<>>
    /\ lastOp.decision[1].action = "switch_provider"
    /\ lastOp.restarts = 1

----------------------------------------------------------------------------
(* Properties of the legacy switcher state *)

\* the switcher state records a switch to the local model
SwitchedToLocal ==
    /\ switcherState # <<>>
    /\ switcherState[1] # Torn
    /\ switcherState[1].mode = "local"

\* C40: in legacy mode the originalModel of the switcher state is never a
\* local model that the plugin wrote to the host config, whatever the
\* interleaving of overlapping switches and whichever restart command failed,
\* and a restoreCloudModel puts a cloud model back as the primary model.
C40_OriginalModelIsCloud ==
    /\ SwitchedToLocal => switcherState[1].originalModel[1] # "ollama"
    /\ (lastOp.name = "load" /\ lastOp.restarts = 1) =>
            resolveCurrentModel(hostConfig)[1] # "ollama"

\* a switch that no overlapping switch preceded records the cloud model
FirstSwitchRecordsCloud ==
    (lastOp.name = "switch_done" /\ lastOp.wrote /\ ~lastOp.second) =>
        /\ SwitchedToLocal
        /\ switcherState[1].originalModel[1] # "ollama"

\* a switch to the local model has been completed
FirstSwitchDone ==
    /\ lastOp.name = "switch_done"
    /\ lastOp.wrote
    /\ ~lastOp.second
    /\ resolveCurrentModel(hostConfig)[1] = "ollama"

====
